---- MODULE Spec2Model ----
(***************************************************************************)
(* Staff-scheduling server: the in-memory entity store (MemStorage), the   *)
(* time-off review operations, the role permission table with the          *)
(* authenticate / checkPermission middleware, and the HTTP handlers that   *)
(* compose them.                                                           *)
(*                                                                         *)
(* Sources: src/server/middleware.ts (permission table, middleware and     *)
(* MemStorage), src/server/routes.ts (handlers), src/shared/schema.ts      *)
(* (entity shapes).                                                        *)
(*                                                                         *)
(* Every MemStorage method is declared async but contains no await before  *)
(* its last write, and every await in a handler is on an already settled   *)
(* promise, so a call runs to completion in one turn of the event loop:    *)
(* each call is one action.                                                *)
(***************************************************************************)
EXTENDS Integers, Sequences, FiniteSets, TLC

\* ------------------------------------------------------------------ bounds

\* Number of calls on the storage in a behaviour of Spec.
MaxOps == 2

\* Number of HTTP requests in a behaviour of SpecRoutes.
MaxRequests == 2

\* Largest reading of the wall clock (new Date()); construction happens at 1.
MaxClock == 2

\* ------------------------------------------------------------ JS values

\* null, and a field that is absent from a JSON body.
Null == 0

\* undefined: a property read that finds nothing (Promise.id in the constructor).
Undefined == -1

\* ------------------------------------------------------------ Map helpers

\* Map.prototype.set
MapSet(m, k, v) == [x \in (DOMAIN m) \cup {k} |-> IF x = k THEN v ELSE m[x]]

\* Map.prototype.delete: the map without key k.
MapDelete(m, k) == [x \in (DOMAIN m) \ {k} |-> m[x]]

\* Map.prototype.has
MapHas(m, k) == k \in DOMAIN m

\* Object spread {...a, ...b}: b's fields override a's, a's others are kept.
Spread(a, b) ==
    [f \in (DOMAIN a) \cup (DOMAIN b) |-> IF f \in DOMAIN b THEN b[f] ELSE a[f]]

\* The empty object {}.
EmptyObject == [f \in {} |-> Null]

\* The value a lookup yields for a missing key, as a record (never equal to
\* an entity: it has no other field).
NotFound == [id |-> Undefined]

\* The keys of a Map in the order its iterators visit them.  A Map iterates
\* in insertion order; every key is inserted once, with the value of a
\* counter that only grows, and set on a stored key keeps its place, so the
\* order is that of the keys.
RECURSIVE KeysInOrder(_)
KeysInOrder(K) ==
    IF K = {} THEN <<>>
    ELSE LET k == CHOOSE x \in K : \A y \in K : x <= y
         IN <<k>> \o KeysInOrder(K \ {k})

\* Array.from(map.values())
Values(m) ==
    LET keys == KeysInOrder(DOMAIN m)
    IN [i \in 1 .. Len(keys) |-> m[keys[i]]]

\* An object without one of its fields: const { field: _, ...rest } = o
Without(o, field) == [f \in (DOMAIN o) \ {field} |-> o[f]]

\* The granularity of a Date within a day: a Date is a number of ticks, and
\* TicksPerDay ticks make a calendar day.
TicksPerDay == 2

DayOf(date) == date \div TicksPerDay

\* ------------------------------------------------------ permission table

Roles == {"admin", "manager", "employee"}

Capabilities ==
    {"viewUsers", "createUser", "editUser", "deleteUser",
     "viewDepartments", "createDepartment", "editDepartment", "deleteDepartment",
     "viewShifts", "createShift", "editShift", "editOwnShift", "deleteShift",
     "viewTimeOff", "createTimeOff", "approveTimeOff",
     "viewMessages", "sendMessages"}

\* The rolePermissions literal: per role, the capabilities set to true.
adminPermissions == [c \in Capabilities |-> TRUE]

managerPermissions ==
    [c \in Capabilities |->
        c \notin {"createUser", "deleteUser",
                  "createDepartment", "editDepartment", "deleteDepartment"}]

employeePermissions ==
    [c \in Capabilities |->
        c \in {"viewUsers", "viewDepartments", "viewShifts", "editOwnShift",
               "viewTimeOff", "createTimeOff", "viewMessages", "sendMessages"}]

rolePermissionsLiteral ==
    [r \in Roles |->
        CASE r = "admin" -> adminPermissions
          [] r = "manager" -> managerPermissions
          [] OTHER -> employeePermissions]

\* ------------------------------------------------------------ MemStorage
\* A MemStorage value s is a record of the class's private fields: the six
\* maps and the six counters.  Every operation below takes the storage (and
\* the clock reading where the method calls new Date()) and yields the new
\* storage in .st and the method's return value in .ret; .found tells whether
\* the return value is an entity (TRUE) or undefined (FALSE).

MapFields ==
    {"users", "departments", "shifts", "timeOffRequests", "activities", "messages"}

\* --- users

getUser(s, id) ==
    IF MapHas(s.users, id) THEN s.users[id] ELSE NotFound

\* Array.prototype.find: the first user, in iteration order, with the username.
getUserByUsername(s, username) ==
    LET found == SelectSeq(Values(s.users), LAMBDA user : user.username = username)
    IN IF found = <<>> THEN NotFound ELSE Head(found)

getUsers(s) == Values(s.users)

createUser(s, user) ==
    LET id == s.userIdCounter
        newUser == Spread(user, [id |-> id])
    IN [st |-> [s EXCEPT !.userIdCounter = id + 1,
                         !.users = MapSet(s.users, id, newUser)],
        found |-> TRUE, ret |-> newUser]

updateUser(s, id, data) ==
    IF ~MapHas(s.users, id)
    THEN [st |-> s, found |-> FALSE, ret |-> NotFound]
    ELSE LET updatedUser == Spread(s.users[id], data)
         IN [st |-> [s EXCEPT !.users = MapSet(s.users, id, updatedUser)],
             found |-> TRUE, ret |-> updatedUser]

\* deleteUser reporting success whether or not the id was present.
deleteUserAlwaysTrue(s, id) ==
    [st |-> [s EXCEPT !.users = MapDelete(s.users, id)],
     deleted |-> TRUE]

deleteUser(s, id) ==
    [st |-> [s EXCEPT !.users = MapDelete(s.users, id)],
     deleted |-> MapHas(s.users, id)]

\* --- departments

getDepartment(s, id) ==
    IF MapHas(s.departments, id) THEN s.departments[id] ELSE NotFound

createDepartment(s, department) ==
    LET id == s.departmentIdCounter
        newDepartment == Spread(department, [id |-> id])
    IN [st |-> [s EXCEPT !.departmentIdCounter = id + 1,
                         !.departments = MapSet(s.departments, id, newDepartment)],
        found |-> TRUE, ret |-> newDepartment]

updateDepartment(s, id, data) ==
    IF ~MapHas(s.departments, id)
    THEN [st |-> s, found |-> FALSE, ret |-> NotFound]
    ELSE LET updatedDepartment == Spread(s.departments[id], data)
         IN [st |-> [s EXCEPT !.departments =
                                  MapSet(s.departments, id, updatedDepartment)],
             found |-> TRUE, ret |-> updatedDepartment]

deleteDepartment(s, id) ==
    [st |-> [s EXCEPT !.departments = MapDelete(s.departments, id)],
     deleted |-> MapHas(s.departments, id)]

\* --- shifts

getShift(s, id) ==
    IF MapHas(s.shifts, id) THEN s.shifts[id] ELSE NotFound

getShifts(s) == Values(s.shifts)

getShiftsByUser(s, userId) ==
    SelectSeq(Values(s.shifts), LAMBDA shift : shift.userId = userId)

\* new Date(shift.date) is the shift's date itself; two Dates compare by their
\* time values.
getShiftsByDateRange(s, startDate, endDate) ==
    SelectSeq(Values(s.shifts),
              LAMBDA shift : shift.date >= startDate /\ shift.date <= endDate)

\* createShift numbering from the size of the map instead of the counter.
createShiftBySize(s, shift) ==
    LET id == Cardinality(DOMAIN s.shifts) + 1
        newShift == Spread(shift, [id |-> id])
    IN [st |-> [s EXCEPT !.shiftIdCounter = id + 1,
                         !.shifts = MapSet(s.shifts, id, newShift)],
        found |-> TRUE, ret |-> newShift]

createShift(s, shift) ==
    LET id == s.shiftIdCounter
        newShift == Spread(shift, [id |-> id])
    IN [st |-> [s EXCEPT !.shiftIdCounter = id + 1,
                         !.shifts = MapSet(s.shifts, id, newShift)],
        found |-> TRUE, ret |-> newShift]

updateShift(s, id, data) ==
    IF ~MapHas(s.shifts, id)
    THEN [st |-> s, found |-> FALSE, ret |-> NotFound]
    ELSE LET updatedShift == Spread(s.shifts[id], data)
         IN [st |-> [s EXCEPT !.shifts = MapSet(s.shifts, id, updatedShift)],
             found |-> TRUE, ret |-> updatedShift]

deleteShift(s, id) ==
    [st |-> [s EXCEPT !.shifts = MapDelete(s.shifts, id)],
     deleted |-> MapHas(s.shifts, id)]

\* --- activities

getActivity(s, id) ==
    IF MapHas(s.activities, id) THEN s.activities[id] ELSE NotFound

\* Array.prototype.sort with the comparator b.createdAt - a.createdAt: the
\* sort is stable (ECMAScript 2019), so activities with equal createdAt stay
\* in the order of the array, which is the map's iteration order.
RECURSIVE sortByCreatedAtDescending(_)
sortByCreatedAtDescending(array) ==
    IF array = <<>> THEN <<>>
    ELSE LET sorted == sortByCreatedAtDescending(SubSeq(array, 1, Len(array) - 1))
             a == array[Len(array)]
             before == SelectSeq(sorted, LAMBDA b : b.createdAt >= a.createdAt)
             after == SelectSeq(sorted, LAMBDA b : b.createdAt < a.createdAt)
         IN before \o <<a>> \o after

\* limit is Undefined when the argument is omitted; limit ? ... : ... takes
\* 0 for omitted as well.
getActivities(s, limit) ==
    LET allActivities == sortByCreatedAtDescending(Values(s.activities))
    IN IF limit = Undefined \/ limit = 0 THEN allActivities
       ELSE SubSeq(allActivities, 1,
                   IF limit < Len(allActivities) THEN limit ELSE Len(allActivities))

createActivity(s, activity, t) ==
    LET id == s.activityIdCounter
        newActivity == Spread(activity, [id |-> id, createdAt |-> t])
    IN [st |-> [s EXCEPT !.activityIdCounter = id + 1,
                         !.activities = MapSet(s.activities, id, newActivity)],
        found |-> TRUE, ret |-> newActivity]

\* --- messages

getMessage(s, id) ==
    IF MapHas(s.messages, id) THEN s.messages[id] ELSE NotFound

getMessages(s) == Values(s.messages)

getMessagesByUser(s, userId) ==
    SelectSeq(Values(s.messages),
              LAMBDA message : message.senderId = userId \/ message.receiverId = userId)

\* getUnreadMessageCount counting the user's messages as getMessagesByUser
\* selects them.
getUnreadMessageCountOfUser(s, userId) ==
    Len(SelectSeq(getMessagesByUser(s, userId), LAMBDA message : ~message.isRead))

getUnreadMessageCount(s, userId) ==
    Len(SelectSeq(Values(s.messages),
                  LAMBDA message : message.receiverId = userId /\ ~message.isRead))

\* createMessage spreading the input over the defaults instead of under them.
createMessageInputWins(s, message, t) ==
    LET id == s.messageIdCounter
        newMessage == Spread([id |-> id, isRead |-> FALSE, createdAt |-> t], message)
    IN [st |-> [s EXCEPT !.messageIdCounter = id + 1,
                         !.messages = MapSet(s.messages, id, newMessage)],
        found |-> TRUE, ret |-> newMessage]

createMessage(s, message, t) ==
    LET id == s.messageIdCounter
        newMessage == Spread(message, [id |-> id, isRead |-> FALSE, createdAt |-> t])
    IN [st |-> [s EXCEPT !.messageIdCounter = id + 1,
                         !.messages = MapSet(s.messages, id, newMessage)],
        found |-> TRUE, ret |-> newMessage]

markMessageAsRead(s, id) ==
    IF ~MapHas(s.messages, id)
    THEN [st |-> s, found |-> FALSE, ret |-> NotFound]
    ELSE LET updatedMessage == Spread(s.messages[id], [isRead |-> TRUE])
         IN [st |-> [s EXCEPT !.messages = MapSet(s.messages, id, updatedMessage)],
             found |-> TRUE, ret |-> updatedMessage]

\* --- time-off requests

getTimeOffRequest(s, id) ==
    IF MapHas(s.timeOffRequests, id) THEN s.timeOffRequests[id] ELSE NotFound

createTimeOffRequest(s, request, t) ==
    LET id == s.timeOffRequestIdCounter
        newRequest == Spread(request,
                             [id |-> id, status |-> "pending", createdAt |-> t,
                              reviewedBy |-> Null, reviewedAt |-> Null])
    IN [st |-> [s EXCEPT !.timeOffRequestIdCounter = id + 1,
                         !.timeOffRequests = MapSet(s.timeOffRequests, id, newRequest)],
        found |-> TRUE, ret |-> newRequest]

updateTimeOffRequest(s, id, data) ==
    IF ~MapHas(s.timeOffRequests, id)
    THEN [st |-> s, found |-> FALSE, ret |-> NotFound]
    ELSE LET updatedRequest == Spread(s.timeOffRequests[id], data)
         IN [st |-> [s EXCEPT !.timeOffRequests =
                                  MapSet(s.timeOffRequests, id, updatedRequest)],
             found |-> TRUE, ret |-> updatedRequest]

\* The review logging its activity as soon as one of the two users resolves.
reviewTimeOffRequestEitherUser(s, id, reviewerId, t, newStatus, activityType) ==
    IF ~MapHas(s.timeOffRequests, id)
    THEN [st |-> s, found |-> FALSE, ret |-> NotFound]
    ELSE LET request == s.timeOffRequests[id]
             updatedRequest ==
                 Spread(request, [status |-> newStatus, reviewedBy |-> reviewerId,
                                  reviewedAt |-> t])
             s1 == [s EXCEPT !.timeOffRequests =
                                 MapSet(s.timeOffRequests, id, updatedRequest)]
             reviewer == getUser(s1, reviewerId)
             requester == getUser(s1, request.userId)
         IN [st |-> IF reviewer # NotFound \/ requester # NotFound
                    THEN createActivity(s1,
                                        [type |-> activityType,
                                         userId |-> reviewerId,
                                         relatedUserId |-> request.userId], t).st
                    ELSE s1,
             found |-> TRUE, ret |-> updatedRequest]

\* approveTimeOffRequest and denyTimeOffRequest differ only in the status
\* written and the activity type.
reviewTimeOffRequest(s, id, reviewerId, t, newStatus, activityType) ==
    IF ~MapHas(s.timeOffRequests, id)
    THEN [st |-> s, found |-> FALSE, ret |-> NotFound]
    ELSE LET request == s.timeOffRequests[id]
             updatedRequest ==
                 Spread(request, [status |-> newStatus, reviewedBy |-> reviewerId,
                                  reviewedAt |-> t])
             s1 == [s EXCEPT !.timeOffRequests =
                                 MapSet(s.timeOffRequests, id, updatedRequest)]
             reviewer == getUser(s1, reviewerId)
             requester == getUser(s1, request.userId)
         IN [st |-> IF reviewer # NotFound /\ requester # NotFound
                    THEN createActivity(s1,
                                        [type |-> activityType,
                                         userId |-> reviewerId,
                                         relatedUserId |-> request.userId], t).st
                    ELSE s1,
             found |-> TRUE, ret |-> updatedRequest]

approveTimeOffRequest(s, id, reviewerId, t) ==
    reviewTimeOffRequest(s, id, reviewerId, t, "approved", "approval")

\* denyTimeOffRequest logging the denial as an approval.
denyTimeOffRequestLoggedAsApproval(s, id, reviewerId, t) ==
    reviewTimeOffRequest(s, id, reviewerId, t, "denied", "approval")

denyTimeOffRequest(s, id, reviewerId, t) ==
    reviewTimeOffRequest(s, id, reviewerId, t, "denied", "denial")

\* The constructor: empty maps, counters at 1.
emptyStorage ==
    [users |-> EmptyObject, departments |-> EmptyObject, shifts |-> EmptyObject,
     timeOffRequests |-> EmptyObject, activities |-> EmptyObject,
     messages |-> EmptyObject,
     userIdCounter |-> 1, departmentIdCounter |-> 1, shiftIdCounter |-> 1,
     timeOffRequestIdCounter |-> 1, activityIdCounter |-> 1, messageIdCounter |-> 1]

\* --- initializeDefaultData
\* Dates are day numbers; the constructor runs on day 1, a Monday.
\* userIds[...] = createdUser.id reads .id of the promise createUser returns,
\* which is undefined: every userIds entry is undefined, and so is every
\* userId / relatedUserId of the default shifts, requests and activities.

defaultDepartments ==
    << [name |-> "Service", color |-> "#67e8f9"],
       [name |-> "Cuisine", color |-> "#a3e635"],
       [name |-> "Reception", color |-> "#818cf8"],
       [name |-> "Administration", color |-> "#fb923c"] >>

defaultUsers ==
    << [username |-> "admin", password |-> "password", role |-> "manager",
        department |-> "Administration"],
       [username |-> "sophie", password |-> "password", role |-> "employee",
        department |-> "Service"],
       [username |-> "alex", password |-> "password", role |-> "employee",
        department |-> "Cuisine"],
       [username |-> "julie", password |-> "password", role |-> "employee",
        department |-> "Reception"] >>

\* The date of a default shift is the Monday of the current week plus day - 1
\* whole days, at the time of day the storage was constructed (today = new
\* Date()), which is not midnight.
defaultShift(day, start, dept) ==
    [userId |-> Undefined, date |-> day * TicksPerDay + 1, startTime |-> start,
     department |-> dept]

defaultShifts ==
    << defaultShift(1, "09:00:00", "Service"),
       defaultShift(3, "13:00:00", "Service"),
       defaultShift(5, "10:00:00", "Service"),
       defaultShift(2, "08:00:00", "Cuisine"),
       defaultShift(3, "08:00:00", "Cuisine"),
       defaultShift(4, "08:00:00", "Cuisine"),
       defaultShift(6, "11:00:00", "Cuisine"),
       defaultShift(4, "14:00:00", "Reception"),
       defaultShift(5, "14:00:00", "Reception"),
       defaultShift(6, "12:00:00", "Reception") >>

defaultTimeOffRequests ==
    << [userId |-> Undefined, startDate |-> 8, endDate |-> 9, reason |-> "personal"],
       [userId |-> Undefined, startDate |-> 5, endDate |-> 5, reason |-> "swap"],
       [userId |-> Undefined, startDate |-> 6, endDate |-> 6, reason |-> "medical"] >>

defaultActivities ==
    << [type |-> "approval", userId |-> Undefined, relatedUserId |-> Undefined],
       [type |-> "shift_added", userId |-> Undefined, relatedUserId |-> Undefined],
       [type |-> "shift_swap", userId |-> Undefined, relatedUserId |-> Undefined],
       [type |-> "denial", userId |-> Undefined, relatedUserId |-> Undefined],
       [type |-> "late", userId |-> Null, relatedUserId |-> Undefined] >>

RECURSIVE createAllDepartments(_, _)
createAllDepartments(s, items) ==
    IF items = << >> THEN s
    ELSE createAllDepartments(createDepartment(s, Head(items)).st, Tail(items))

RECURSIVE createAllUsers(_, _)
createAllUsers(s, items) ==
    IF items = << >> THEN s
    ELSE createAllUsers(createUser(s, Head(items)).st, Tail(items))

RECURSIVE createAllShifts(_, _)
createAllShifts(s, items) ==
    IF items = << >> THEN s
    ELSE createAllShifts(createShift(s, Head(items)).st, Tail(items))

RECURSIVE createAllTimeOffRequests(_, _, _)
createAllTimeOffRequests(s, items, t) ==
    IF items = << >> THEN s
    ELSE createAllTimeOffRequests(createTimeOffRequest(s, Head(items), t).st,
                                  Tail(items), t)

RECURSIVE createAllActivities(_, _, _)
createAllActivities(s, items, t) ==
    IF items = << >> THEN s
    ELSE createAllActivities(createActivity(s, Head(items), t).st, Tail(items), t)

initializeDefaultData(s, t) ==
    LET s1 == createAllDepartments(s, defaultDepartments)
        s2 == createAllUsers(s1, defaultUsers)
        s3 == createAllShifts(s2, defaultShifts)
        s4 == createAllTimeOffRequests(s3, defaultTimeOffRequests, t)
    IN createAllActivities(s4, defaultActivities, t)

\* ------------------------------------------------------------ middleware
\* A request carries the x-user-id header (Null when absent; an id otherwise),
\* its method and path.  req holds what the middleware attaches to it:
\* currentUser (hasUser tells whether it is set) and userPermissions
\* (hasPermissions tells whether it is set).

noPermissions == [c \in Capabilities |-> FALSE]

bareRequest ==
    [hasUser |-> FALSE, currentUser |-> NotFound,
     hasPermissions |-> FALSE, userPermissions |-> noPermissions]

\* authenticate: .next tells whether next() was called; otherwise .status is
\* the response sent.
authenticate(s, table, header, method, path) ==
    IF header = Null
    THEN IF path = "/api/login" \/ method = "GET"
         THEN [next |-> TRUE, status |-> 0,
               req |-> [bareRequest EXCEPT !.hasPermissions = TRUE,
                                           !.userPermissions = table["employee"]]]
         ELSE IF getUser(s, 1) # NotFound
              THEN [next |-> TRUE, status |-> 0,
                    req |-> [hasUser |-> TRUE, currentUser |-> getUser(s, 1),
                             hasPermissions |-> TRUE,
                             userPermissions |-> table["admin"]]]
              ELSE [next |-> FALSE, status |-> 401, req |-> bareRequest]
    ELSE LET user == getUser(s, header)
         IN IF user = NotFound
            THEN [next |-> FALSE, status |-> 401, req |-> bareRequest]
            ELSE LET role == IF user.role = "" THEN "employee" ELSE user.role
                 IN [next |-> TRUE, status |-> 0,
                     req |-> [hasUser |-> TRUE, currentUser |-> user,
                              hasPermissions |-> role \in DOMAIN table,
                              userPermissions |->
                                  IF role \in DOMAIN table THEN table[role]
                                  ELSE noPermissions]]

\* checkPermission with the own-shift rule tried before the table cell, as
\* its comment describes it.
checkPermissionOwnShiftFirst(table, permissionKey, req, bodyUserId) ==
    IF req.hasPermissions
    THEN IF /\ permissionKey = "editShift"
            /\ ~req.userPermissions["editShift"]
            /\ req.userPermissions["editOwnShift"]
            /\ req.hasUser
            /\ req.currentUser.id = bodyUserId
         THEN [next |-> TRUE, status |-> 0, detail |-> "none", req |-> req]
         ELSE IF ~req.userPermissions[permissionKey]
              THEN [next |-> FALSE, status |-> 403, detail |-> "noPermission",
                    req |-> req]
              ELSE [next |-> TRUE, status |-> 0, detail |-> "none", req |-> req]
    ELSE [next |-> TRUE, status |-> 0, detail |-> "none",
          req |-> [req EXCEPT !.hasPermissions = TRUE,
                              !.userPermissions = table["admin"]]]

\* checkPermission letting every request through.
checkPermissionAllowAll(table, permissionKey, req, bodyUserId) ==
    [next |-> TRUE, status |-> 0, detail |-> "none", req |-> req]

\* checkPermission(permissionKey): bodyUserId is parseInt(req.body.userId).
\* .detail names the reason of a 403: "noPermission" (the table cell is
\* false), "ownShiftsOnly", "noShiftEdit".
checkPermission(table, permissionKey, req, bodyUserId) ==
    IF req.hasPermissions
    THEN IF ~req.userPermissions[permissionKey]
         THEN [next |-> FALSE, status |-> 403, detail |-> "noPermission", req |-> req]
         ELSE IF permissionKey = "editShift" /\ ~req.userPermissions["editShift"]
              THEN IF req.userPermissions["editOwnShift"] /\ req.hasUser
                   THEN IF req.currentUser.id # bodyUserId
                        THEN [next |-> FALSE, status |-> 403,
                              detail |-> "ownShiftsOnly", req |-> req]
                        ELSE [next |-> TRUE, status |-> 0, detail |-> "none",
                              req |-> req]
                   ELSE [next |-> FALSE, status |-> 403, detail |-> "noShiftEdit",
                         req |-> req]
              ELSE [next |-> TRUE, status |-> 0, detail |-> "none", req |-> req]
    ELSE [next |-> TRUE, status |-> 0, detail |-> "none",
          req |-> [req EXCEPT !.hasPermissions = TRUE,
                              !.userPermissions = table["admin"]]]

\* req.currentUser?.id || null
currentUserIdOrNull(req) == IF req.hasUser THEN req.currentUser.id ELSE Null

\* ------------------------------------------------------------ handlers
\* Each handler takes the storage, the request as the middleware left it and
\* the request's inputs, and yields the storage it leaves (.st) and the
\* status of its response (.status).  valid tells whether the body passes the
\* route's zod schema; data is then the parsed body.

\* POST /api/login.  A username or password that is missing or empty is "".
\* .body is the JSON sent with a 200.
postLogin(s, username, password) ==
    IF username = "" \/ password = ""
    THEN [st |-> s, status |-> 400, body |-> EmptyObject]
    ELSE LET user == getUserByUsername(s, username)
         IN IF user = NotFound \/ user.password # password
            THEN [st |-> s, status |-> 401, body |-> EmptyObject]
            ELSE [st |-> s, status |-> 200,
                  body |-> [user |-> Without(user, "password")]]

\* GET /api/users
getUsersList(s) ==
    LET users == getUsers(s)
    IN [st |-> s, status |-> 200,
        body |-> [rows |-> [i \in 1 .. Len(users) |-> Without(users[i], "password")]]]

\* GET /api/users/:id
getUsersId(s, id) ==
    LET user == getUser(s, id)
    IN IF user = NotFound THEN [st |-> s, status |-> 404, body |-> EmptyObject]
       ELSE [st |-> s, status |-> 200, body |-> Without(user, "password")]

\* PUT /api/users/:id, first handler: whether the request is for the caller's
\* own profile.
putUsersIdOwnProfile(req, id) == req.hasUser /\ req.currentUser.id = id

\* The fields of the body that the first handler keeps for an own profile.
putUsersIdFilter(req, id, data) ==
    IF putUsersIdOwnProfile(req, id)
    THEN [f \in (DOMAIN data) \cap {"firstName", "lastName", "password", "profileImage"}
             |-> data[f]]
    ELSE data

\* PUT /api/users/:id, second handler; userData is the body as the first
\* handler left it.
putUsersId(s, id, valid, userData) ==
    IF ~valid THEN [st |-> s, status |-> 400, body |-> EmptyObject]
    ELSE LET u == updateUser(s, id, userData)
         IN IF ~u.found THEN [st |-> u.st, status |-> 404, body |-> EmptyObject]
            ELSE [st |-> u.st, status |-> 200, body |-> Without(u.ret, "password")]

\* POST /api/users attributing the activity to the user it created.
postUsersByNewUser(s, req, valid, userData, t) ==
    IF ~valid THEN [st |-> s, status |-> 400, body |-> EmptyObject]
    ELSE LET c == createUser(s, userData)
         IN [st |-> createActivity(c.st,
                                   [type |-> "user_created",
                                    userId |-> c.ret.id,
                                    relatedUserId |-> currentUserIdOrNull(req)], t).st,
             status |-> 201, body |-> Without(c.ret, "password")]

\* POST /api/users
postUsers(s, req, valid, userData, t) ==
    IF ~valid THEN [st |-> s, status |-> 400, body |-> EmptyObject]
    ELSE LET c == createUser(s, userData)
         IN [st |-> createActivity(c.st,
                                   [type |-> "user_created",
                                    userId |-> currentUserIdOrNull(req),
                                    relatedUserId |-> c.ret.id], t).st,
             status |-> 201, body |-> Without(c.ret, "password")]

\* DELETE /api/users/:id logging the deletion without looking at what
\* deleteUser returned.
deleteUsersIdAlwaysLogs(s, req, id, t) ==
    LET d == deleteUser(s, id)
    IN [st |-> createActivity(d.st,
                              [type |-> "user_deleted",
                               userId |-> currentUserIdOrNull(req)], t).st,
        status |-> IF d.deleted THEN 204 ELSE 404]

\* DELETE /api/users/:id
deleteUsersId(s, req, id, t) ==
    LET d == deleteUser(s, id)
    IN IF ~d.deleted THEN [st |-> d.st, status |-> 404]
       ELSE [st |-> createActivity(d.st,
                                   [type |-> "user_deleted",
                                    userId |-> currentUserIdOrNull(req)], t).st,
             status |-> 204]

\* POST /api/departments
postDepartments(s, req, valid, departmentData, t) ==
    IF ~valid THEN [st |-> s, status |-> 400, body |-> EmptyObject]
    ELSE LET c == createDepartment(s, departmentData)
         IN [st |-> createActivity(c.st,
                                   [type |-> "department_created",
                                    userId |-> currentUserIdOrNull(req)], t).st,
             status |-> 201, body |-> c.ret]

\* PUT /api/departments/:id
putDepartmentsId(s, req, id, valid, departmentData, t) ==
    IF ~valid THEN [st |-> s, status |-> 400]
    ELSE LET u == updateDepartment(s, id, departmentData)
         IN IF ~u.found THEN [st |-> u.st, status |-> 404]
            ELSE [st |-> createActivity(u.st,
                                        [type |-> "department_updated",
                                         userId |-> currentUserIdOrNull(req)], t).st,
                  status |-> 200]

\* DELETE /api/departments/:id
deleteDepartmentsId(s, req, id, t) ==
    IF getDepartment(s, id) = NotFound THEN [st |-> s, status |-> 404]
    ELSE LET d == deleteDepartment(s, id)
         IN IF ~d.deleted THEN [st |-> d.st, status |-> 404]
            ELSE [st |-> createActivity(d.st,
                                        [type |-> "department_deleted",
                                         userId |-> currentUserIdOrNull(req)], t).st,
                  status |-> 204]

\* The notification sent as a system message, without a sender.
shiftNotificationFromSystem(req, user, subject) ==
    [senderId |-> Null, receiverId |-> user.id,
     subject |-> subject, priority |-> "high", messageType |-> "notification"]

\* The notification message of the three shift handlers.
shiftNotification(req, user, subject) ==
    [senderId |-> currentUserIdOrNull(req), receiverId |-> user.id,
     subject |-> subject, priority |-> "high", messageType |-> "notification"]

\* The side effects with the activity logged whether or not the owner is a
\* stored user.
shiftSideEffectsAlwaysLogged(s, req, ownerId, activityType, subject, notifyEmployee, t) ==
    LET user == getUser(s, ownerId)
        s1 == createActivity(s, [type |-> activityType,
                                 userId |-> currentUserIdOrNull(req),
                                 relatedUserId |-> ownerId], t).st
    IN IF user # NotFound /\ notifyEmployee
       THEN createMessage(s1, shiftNotification(req, user, subject), t).st
       ELSE s1

\* The activity, and when asked the message, that follow a shift change for
\* the shift's owner, when that owner is a stored user.
shiftSideEffects(s, req, ownerId, activityType, subject, notifyEmployee, t) ==
    LET user == getUser(s, ownerId)
    IN IF user = NotFound THEN s
       ELSE LET s1 == createActivity(s, [type |-> activityType,
                                         userId |-> currentUserIdOrNull(req),
                                         relatedUserId |-> ownerId], t).st
            IN IF notifyEmployee
               THEN createMessage(s1, shiftNotification(req, user, subject), t).st
               ELSE s1

\* POST /api/shifts
postShifts(s, req, valid, validatedData, notifyEmployee, t) ==
    IF ~valid THEN [st |-> s, status |-> 400]
    ELSE LET c == createShift(s, validatedData)
         IN [st |-> shiftSideEffects(c.st, req, validatedData.userId, "shift_added",
                                     "Nouveau quart de travail", notifyEmployee, t),
             status |-> 201]

\* PUT /api/shifts/:id, first handler: the capability it has checked, for a
\* shift that exists.
putShiftsIdPermission(s, req, id) ==
    IF /\ req.hasUser
       /\ req.currentUser.role = "employee"
       /\ getShift(s, id).userId = req.currentUser.id
    THEN "editOwnShift"
    ELSE "editShift"

\* PUT /api/shifts/:id logging and notifying for the owner the shift has after
\* the update.
putShiftsIdForNewOwner(s, req, id, valid, shiftData, notifyEmployee, t) ==
    LET existingShift == getShift(s, id)
    IN IF existingShift = NotFound THEN [st |-> s, status |-> 404]
       ELSE IF ~valid THEN [st |-> s, status |-> 400]
       ELSE LET u == updateShift(s, id, shiftData)
            IN [st |-> shiftSideEffects(u.st, req, u.ret.userId,
                                        "shift_updated",
                                        "Modification de votre horaire",
                                        notifyEmployee, t),
                status |-> 200, body |-> u.ret]

\* PUT /api/shifts/:id, second handler.  .body is the JSON sent with a 200.
putShiftsId(s, req, id, valid, shiftData, notifyEmployee, t) ==
    LET existingShift == getShift(s, id)
    IN IF existingShift = NotFound THEN [st |-> s, status |-> 404]
       ELSE IF ~valid THEN [st |-> s, status |-> 400]
       ELSE LET u == updateShift(s, id, shiftData)
            IN [st |-> shiftSideEffects(u.st, req, existingShift.userId,
                                        "shift_updated",
                                        "Modification de votre horaire",
                                        notifyEmployee, t),
                status |-> 200, body |-> u.ret]

\* DELETE /api/shifts/:id
deleteShiftsId(s, req, id, notifyEmployee, t) ==
    LET shift == getShift(s, id)
    IN IF shift = NotFound THEN [st |-> s, status |-> 404]
       ELSE LET d == deleteShift(s, id)
            IN IF ~d.deleted THEN [st |-> d.st, status |-> 404]
               ELSE [st |-> shiftSideEffects(d.st, req, shift.userId, "shift_deleted",
                                             "Suppression d'un quart de travail",
                                             notifyEmployee, t),
                     status |-> 204]

\* POST /api/time-off/:id/approve
postTimeOffIdApprove(s, id, reviewerId, t) ==
    IF reviewerId = Null THEN [st |-> s, status |-> 400]
    ELSE LET r == approveTimeOffRequest(s, id, reviewerId, t)
         IN IF ~r.found THEN [st |-> r.st, status |-> 404]
            ELSE [st |-> r.st, status |-> 200]

\* POST /api/time-off/:id/deny
postTimeOffIdDeny(s, id, reviewerId, t) ==
    IF reviewerId = Null THEN [st |-> s, status |-> 400]
    ELSE LET r == denyTimeOffRequest(s, id, reviewerId, t)
         IN IF ~r.found THEN [st |-> r.st, status |-> 404]
            ELSE [st |-> r.st, status |-> 200]

\* ------------------------------------------------------------------ state

VARIABLES
    storage,          \* the exported MemStorage singleton
    rolePermissions,  \* the module-level permission table
    now,              \* the latest reading of the wall clock (new Date())
    nops,             \* calls / requests handled so far
    last,             \* the last call or request: its inputs and its outcome
    pre,              \* storage and issued as they were before it
    issued,           \* per map, every id a create has ever assigned
    inflight          \* the requests whose handler is suspended at an await

vars == <<storage, rolePermissions, now, nops, last, pre, issued, inflight>>

\* last before any call.  For a call on the storage: op (the method), map,
\* id (the key passed, or the id assigned), arg (the entity or partial
\* passed), found / ret (the return value), deleted (a delete's return
\* value), reviewerId, at (the clock reading used).  For a request: op (the
\* route), id, arg (the parsed body), status (of the response), header,
\* identified (the header names a stored user), actor and role (of
\* req.currentUser), perm (the capability checkPermission was called with),
\* allowed (it called next), detail (its reason when it did not), bodyUserId,
\* notify, valid.
noCall ==
    [op |-> "none", map |-> "none", id |-> Null, arg |-> EmptyObject,
     found |-> FALSE, ret |-> NotFound, deleted |-> FALSE, reviewerId |-> Null,
     at |-> Null, status |-> 0, header |-> Null, identified |-> FALSE,
     actor |-> Null, role |-> "none", perm |-> "none", allowed |-> FALSE,
     detail |-> "none", bodyUserId |-> Null, notify |-> FALSE, valid |-> FALSE]

\* No request: a handler that is not running.  For a request in flight: pc
\* (the await it is suspended at, named after the constant the awaited value
\* is assigned to; "done" once it has responded), op, id, arg, valid, notify,
\* reviewerId and req (what it was called with), the values its awaits have
\* returned so far (read, first, second), and status (of the response).
idle ==
    [pc |-> "idle", op |-> "none", id |-> Null, arg |-> EmptyObject,
     valid |-> FALSE, notify |-> FALSE, reviewerId |-> Null, req |-> bareRequest,
     read |-> NotFound, first |-> NotFound, second |-> NotFound, status |-> 0]

Init ==
    /\ storage = initializeDefaultData(emptyStorage, 1)
    /\ rolePermissions = rolePermissionsLiteral
    /\ now = 1
    /\ nops = 0
    /\ last = noCall
    /\ issued = [m \in MapFields |-> DOMAIN storage[m]]
    /\ pre = [storage |-> storage, issued |-> issued]
    /\ inflight = [slot \in {"a", "b"} |-> idle]

\* new Date(): the clock never runs backwards; between two calls it has
\* either stayed on the same reading or moved on.
Readings == {t \in {now, now + 1} : t <= MaxClock}

\* ------------------------------------------------ calls on the storage

\* The ids a call added to map m of the storage.
newKeys(s2, m) == (DOMAIN s2[m]) \ (DOMAIN storage[m])

\* issued after a call that left the storage as s2 and returned the entities
\* with the given ids from creates on map.
issuedAfter(s2, map, ids) ==
    [m \in MapFields |->
        issued[m] \cup newKeys(s2, m) \cup (IF m = map THEN ids ELSE {})]

Snapshot == [storage |-> storage, issued |-> issued]

\* A create call at clock reading t: r is the method's result.
Created(op, map, arg, t, r) ==
    /\ nops < MaxOps
    /\ storage' = r.st
    /\ issued' = issuedAfter(r.st, map, {r.ret.id})
    /\ last' = [noCall EXCEPT !.op = op, !.map = map, !.id = r.ret.id, !.arg = arg,
                              !.found = TRUE, !.ret = r.ret, !.at = t]
    /\ pre' = Snapshot
    /\ nops' = nops + 1
    /\ now' = t
    /\ UNCHANGED <<rolePermissions, inflight>>

\* An update-like call (update, review, mark as read) on key id.
Updated(op, map, id, arg, reviewerId, t, r) ==
    /\ nops < MaxOps
    /\ storage' = r.st
    /\ issued' = issuedAfter(r.st, map, {})
    /\ last' = [noCall EXCEPT !.op = op, !.map = map, !.id = id, !.arg = arg,
                              !.found = r.found, !.ret = r.ret,
                              !.reviewerId = reviewerId, !.at = t]
    /\ pre' = Snapshot
    /\ nops' = nops + 1
    /\ now' = t
    /\ UNCHANGED <<rolePermissions, inflight>>

\* A delete call on key id.
Deleted(op, map, id, r) ==
    /\ nops < MaxOps
    /\ storage' = r.st
    /\ issued' = issuedAfter(r.st, map, {})
    /\ last' = [noCall EXCEPT !.op = op, !.map = map, !.id = id,
                              !.deleted = r.deleted, !.at = now]
    /\ pre' = Snapshot
    /\ nops' = nops + 1
    /\ UNCHANGED <<rolePermissions, now, inflight>>

\* A call of a method that only reads: result is what it returned.  Reading
\* leaves the storage as it is, so it is not counted among the calls that
\* MaxOps bounds.
Queried(op, map, arg, result) ==
    /\ last' = [noCall EXCEPT !.op = op, !.map = map, !.arg = arg,
                              !.found = TRUE, !.ret = result, !.at = now]
    /\ pre' = Snapshot
    /\ UNCHANGED <<storage, rolePermissions, now, nops, issued, inflight>>

\* --- inputs

\* Ids a caller passes: stored ids, ids of entities created later, and ids
\* that are never assigned.
UserIds == {2, 5, 9}
DepartmentIds == {4, 9}
ShiftIds == {10, 11, 19}
TimeOffRequestIds == {1, 4, 9}
MessageIds == {1, 9}
ReviewerIds == {1, 9}

InsertUsers ==
    {[username |-> "bob", password |-> "pw", role |-> "admin", department |-> "Service"]}

PartialInsertUsers == {EmptyObject, [role |-> "manager", password |-> "new"]}

InsertDepartments == {[name |-> "Bar", color |-> "#000000"]}

PartialInsertDepartments == {EmptyObject, [name |-> "Salle"]}

InsertShifts ==
    {[userId |-> 2, date |-> 3, startTime |-> "09:00:00", department |-> "Service"]}

PartialInsertShifts == {EmptyObject, [userId |-> 3, date |-> 7]}

InsertTimeOffRequests ==
    {[userId |-> 2, startDate |-> 3, endDate |-> 4, reason |-> "trip"]}

\* Partial<TimeOffRequest>: any subset of the entity's fields, id included.
PartialTimeOffRequests ==
    {EmptyObject, [id |-> 2], [status |-> "pending", reviewedBy |-> Null],
     [reason |-> "changed", createdAt |-> MaxClock]}

InsertActivities == {[type |-> "note", userId |-> Null, relatedUserId |-> 2]}

\* A message from user 1 to user 2, and a system message to user 2 whose
\* object carries an isRead field that InsertMessage does not declare.
InsertMessages ==
    {[senderId |-> 1, receiverId |-> 2, subject |-> "hello",
      priority |-> "normal", messageType |-> "message"],
     [senderId |-> Null, receiverId |-> 2, subject |-> "system",
      priority |-> "low", messageType |-> "notification", isRead |-> TRUE]}

\* --- one action per MemStorage method that writes

CreateUser ==
    \E user \in InsertUsers :
        Created("createUser", "users", user, now, createUser(storage, user))

UpdateUser ==
    \E id \in UserIds, data \in PartialInsertUsers :
        Updated("updateUser", "users", id, data, Null, now,
                updateUser(storage, id, data))

DeleteUser ==
    \E id \in UserIds :
        Deleted("deleteUser", "users", id, deleteUser(storage, id))

CreateDepartment ==
    \E department \in InsertDepartments :
        Created("createDepartment", "departments", department, now,
                createDepartment(storage, department))

UpdateDepartment ==
    \E id \in DepartmentIds, data \in PartialInsertDepartments :
        Updated("updateDepartment", "departments", id, data, Null, now,
                updateDepartment(storage, id, data))

DeleteDepartment ==
    \E id \in DepartmentIds :
        Deleted("deleteDepartment", "departments", id, deleteDepartment(storage, id))

CreateShift ==
    \E shift \in InsertShifts :
        Created("createShift", "shifts", shift, now, createShift(storage, shift))

UpdateShift ==
    \E id \in ShiftIds, data \in PartialInsertShifts :
        Updated("updateShift", "shifts", id, data, Null, now,
                updateShift(storage, id, data))

DeleteShift ==
    \E id \in ShiftIds :
        Deleted("deleteShift", "shifts", id, deleteShift(storage, id))

CreateTimeOffRequest ==
    \E request \in InsertTimeOffRequests, t \in Readings :
        Created("createTimeOffRequest", "timeOffRequests", request, t,
                createTimeOffRequest(storage, request, t))

UpdateTimeOffRequest ==
    \E id \in TimeOffRequestIds, data \in PartialTimeOffRequests :
        Updated("updateTimeOffRequest", "timeOffRequests", id, data, Null, now,
                updateTimeOffRequest(storage, id, data))

ApproveTimeOffRequest ==
    \E id \in TimeOffRequestIds, reviewerId \in ReviewerIds, t \in Readings :
        Updated("approveTimeOffRequest", "timeOffRequests", id, EmptyObject,
                reviewerId, t, approveTimeOffRequest(storage, id, reviewerId, t))

DenyTimeOffRequest ==
    \E id \in TimeOffRequestIds, reviewerId \in ReviewerIds, t \in Readings :
        Updated("denyTimeOffRequest", "timeOffRequests", id, EmptyObject,
                reviewerId, t, denyTimeOffRequest(storage, id, reviewerId, t))

CreateActivity ==
    \E activity \in InsertActivities, t \in Readings :
        Created("createActivity", "activities", activity, t,
                createActivity(storage, activity, t))

CreateMessage ==
    \E message \in InsertMessages, t \in Readings :
        Created("createMessage", "messages", message, t,
                createMessage(storage, message, t))

MarkMessageAsRead ==
    \E id \in MessageIds :
        Updated("markMessageAsRead", "messages", id, EmptyObject, Null, now,
                markMessageAsRead(storage, id))

Next ==
    \/ CreateUser \/ UpdateUser \/ DeleteUser
    \/ CreateDepartment \/ UpdateDepartment \/ DeleteDepartment
    \/ CreateShift \/ UpdateShift \/ DeleteShift
    \/ CreateTimeOffRequest \/ UpdateTimeOffRequest
    \/ ApproveTimeOffRequest \/ DenyTimeOffRequest
    \/ CreateActivity
    \/ CreateMessage \/ MarkMessageAsRead

\* Any sequence of calls on the storage, as its callers may issue them.
Spec == Init /\ [][Next]_vars

\* --- the methods that list

\* Dates a caller asks for: midnight of the default Monday, midnight of the
\* default Wednesday, the time of day of the default shifts on that Wednesday.
QueryDates == {2, 6, 7}

GetShiftsByDateRange ==
    \E startDate \in QueryDates, endDate \in QueryDates :
        Queried("getShiftsByDateRange", "shifts",
                [startDate |-> startDate, endDate |-> endDate],
                [rows |-> getShiftsByDateRange(storage, startDate, endDate)])

GetShiftsByUser ==
    \E userId \in UserIds :
        Queried("getShiftsByUser", "shifts", [userId |-> userId],
                [rows |-> getShiftsByUser(storage, userId)])

NextShiftQueries ==
    \/ CreateShift \/ UpdateShift \/ DeleteShift
    \/ GetShiftsByDateRange \/ GetShiftsByUser

\* The shifts as they are written and listed.
SpecShiftQueries == Init /\ [][NextShiftQueries]_vars

\* limit: omitted, 0, and counts below, at and above the number of default
\* activities.
ActivityLimits == {Undefined, 0, 1, 2, 5, 7}

GetActivities ==
    \E limit \in ActivityLimits :
        Queried("getActivities", "activities", [limit |-> limit],
                [rows |-> getActivities(storage, limit)])

GetUnreadMessageCount ==
    \E userId \in {1, 2, 3} :
        Queried("getUnreadMessageCount", "messages", [userId |-> userId],
                [count |-> getUnreadMessageCount(storage, userId)])

\* parseInt of the query strings the requests carry; a string outside the
\* domain parses to NaN.
parseInt ==
    [str \in {"0", "1", "2", "7"} |->
        CASE str = "0" -> 0 [] str = "1" -> 1 [] str = "2" -> 2 [] str = "7" -> 7]

\* GET /api/activities.  limit is req.query.limit, "" when the query has none
\* (an empty string is as falsy as undefined).
getActivitiesList(s, limit) ==
    IF limit # ""
    THEN IF limit \notin DOMAIN parseInt
         THEN [st |-> s, status |-> 400, body |-> EmptyObject]
         ELSE [st |-> s, status |-> 200,
               body |-> [rows |-> getActivities(s, parseInt[limit])]]
    ELSE [st |-> s, status |-> 200, body |-> [rows |-> getActivities(s, Undefined)]]


\* ------------------------------------------------------- HTTP requests

\* authenticate followed by checkPermission(permissionKey), as the guarded
\* routes chain them.  .perm is the capability checked, "none" when
\* authenticate answered.
guarded(s, table, header, method, path, permissionKey, bodyUserId) ==
    LET a == authenticate(s, table, header, method, path)
    IN IF ~a.next
       THEN [next |-> FALSE, status |-> a.status, detail |-> "none",
             req |-> a.req, perm |-> "none"]
       ELSE LET c == checkPermission(table, permissionKey, a.req, bodyUserId)
            IN [next |-> c.next, status |-> c.status, detail |-> c.detail,
                req |-> c.req, perm |-> permissionKey]

\* The middleware chain of PUT /api/shifts/:id: authenticate, then the first
\* handler, which answers 404 for a missing shift before it checks anything.
guardedPutShiftsId(s, table, header, id, bodyUserId) ==
    LET a == authenticate(s, table, header, "PUT", "/api/shifts/:id")
    IN IF ~a.next
       THEN [next |-> FALSE, status |-> a.status, detail |-> "none",
             req |-> a.req, perm |-> "none"]
       ELSE IF getShift(s, id) = NotFound
       THEN [next |-> FALSE, status |-> 404, detail |-> "none",
             req |-> a.req, perm |-> "none"]
       ELSE LET key == putShiftsIdPermission(s, a.req, id)
                c == checkPermission(table, key, a.req, bodyUserId)
            IN [next |-> c.next, status |-> c.status, detail |-> c.detail,
                req |-> c.req, perm |-> key]

\* The middleware chain of PUT /api/users/:id: authenticate, then the first
\* handler, which lets a caller through for its own profile and asks for
\* editUser otherwise.
guardedPutUsersId(s, table, header, id) ==
    LET a == authenticate(s, table, header, "PUT", "/api/users/:id")
    IN IF ~a.next
       THEN [next |-> FALSE, status |-> a.status, detail |-> "none",
             req |-> a.req, perm |-> "none"]
       ELSE IF putUsersIdOwnProfile(a.req, id)
       THEN [next |-> TRUE, status |-> 0, detail |-> "none",
             req |-> a.req, perm |-> "none"]
       ELSE LET c == checkPermission(table, "editUser", a.req, Null)
            IN [next |-> c.next, status |-> c.status, detail |-> c.detail,
                req |-> c.req, perm |-> "editUser"]

\* Routes without middleware.
unguarded == [next |-> TRUE, status |-> 0, detail |-> "none",
              req |-> bareRequest, perm |-> "none"]

\* One request: g is the outcome of the middleware chain, r the outcome of
\* the handler, which runs only when the chain called next.  t is the clock
\* reading of the handler's new Date() calls; a request that writes nothing
\* reads no clock.
Handled(op, id, body, header, t, g, r) ==
    /\ nops < MaxRequests
    /\ t # now => (g.next /\ r.st # storage)
    /\ storage' = (IF g.next THEN r.st ELSE storage)
    /\ issued' = issuedAfter(storage', "none", {})
    /\ last' = [noCall EXCEPT
                  !.op = op, !.id = id, !.arg = body.data,
                  !.status = (IF g.next THEN r.status ELSE g.status),
                  !.header = header,
                  !.identified = (header # Null /\ g.req.hasUser),
                  !.actor = currentUserIdOrNull(g.req),
                  !.role = (IF g.req.hasUser THEN g.req.currentUser.role ELSE "none"),
                  !.perm = g.perm, !.allowed = g.next, !.detail = g.detail,
                  !.bodyUserId = body.userId, !.notify = body.notifyEmployee,
                  !.valid = body.valid, !.reviewerId = body.reviewerId, !.at = t,
                  !.ret = (IF g.next /\ "body" \in DOMAIN r THEN r.body ELSE EmptyObject)]
    /\ pre' = Snapshot
    /\ nops' = nops + 1
    /\ now' = t
    /\ UNCHANGED <<rolePermissions, inflight>>

\* One request to a route that only reads: it is not counted among the
\* requests that MaxRequests bounds.
Served(op, id, body, header, g, r) ==
    /\ last' = [noCall EXCEPT
                  !.op = op, !.id = id, !.arg = body.data,
                  !.status = (IF g.next THEN r.status ELSE g.status),
                  !.header = header,
                  !.identified = (header # Null /\ g.req.hasUser),
                  !.actor = currentUserIdOrNull(g.req),
                  !.role = (IF g.req.hasUser THEN g.req.currentUser.role ELSE "none"),
                  !.perm = g.perm, !.allowed = g.next, !.detail = g.detail,
                  !.valid = body.valid, !.at = now,
                  !.ret = (IF g.next THEN r.body ELSE EmptyObject)]
    /\ pre' = Snapshot
    /\ UNCHANGED <<storage, rolePermissions, now, nops, issued, inflight>>

\* --- inputs

\* x-user-id: absent, the default manager, a default employee, the first
\* user created later, an id that is never assigned.
Headers == {Null, 1, 2, 5, 9}

\* A request body: whether it passes the route's schema, the parsed data,
\* and the fields the handlers read from the raw body.
Body(valid, data, notifyEmployee) ==
    [valid |-> valid, data |-> data, notifyEmployee |-> notifyEmployee,
     userId |-> IF "userId" \in DOMAIN data THEN data.userId ELSE Null,
     reviewerId |-> Null]

noBody == Body(TRUE, EmptyObject, FALSE)

ReviewBody(reviewerId) == [noBody EXCEPT !.reviewerId = reviewerId]

UserBodies ==
    {Body(FALSE, EmptyObject, FALSE)} \cup
    {Body(TRUE, user, FALSE) : user \in InsertUsers}

DepartmentBodies ==
    {Body(FALSE, EmptyObject, FALSE), Body(TRUE, [name |-> "Salle"], FALSE)}

PostShiftBodies ==
    {Body(FALSE, EmptyObject, FALSE)} \cup
    {Body(TRUE, [userId |-> 3, date |-> 3, startTime |-> "09:00:00",
                 department |-> "Service"], n) : n \in BOOLEAN}

\* The body of PUT /api/shifts/:id as updateShiftSchema parses it: some of a
\* shift's fields, never an id.
PutShiftBodies ==
    {Body(FALSE, EmptyObject, FALSE)} \cup
    {Body(TRUE, data, n) : data \in {[date |-> 7], [userId |-> 2]}, n \in BOOLEAN}

DeleteShiftBodies == {Body(TRUE, EmptyObject, n) : n \in BOOLEAN}

RouteUserIds == {3, 9}
RouteShiftIds == {1, 11, 19}
RouteTimeOffRequestIds == {1, 9}
RouteReviewerIds == {Null, 1, 9}

\* --- one action per route

\* A route guarded by authenticate and checkPermission(permissionKey) whose
\* handler writes nothing: it shows only what the two middlewares decide.
Authorize ==
    \E header \in Headers, permissionKey \in Capabilities,
       bodyUserId \in {Null, 2} :
        /\ (permissionKey # "editShift" => bodyUserId = Null)
        /\ Handled("authorize", Null,
                   [noBody EXCEPT !.userId = bodyUserId], header, now,
                   guarded(storage, rolePermissions, header, "POST", "/api",
                           permissionKey, bodyUserId),
                   [st |-> storage, status |-> 200])

PostUsers ==
    \E header \in Headers, body \in UserBodies, t \in Readings :
        LET g == guarded(storage, rolePermissions, header, "POST", "/api/users",
                         "createUser", body.userId)
        IN Handled("POST /api/users", Null, body, header, t, g,
                   postUsers(storage, g.req, body.valid, body.data, t))

DeleteUsersId ==
    \E header \in Headers, id \in RouteUserIds, t \in Readings :
        LET g == guarded(storage, rolePermissions, header, "DELETE",
                         "/api/users/:id", "deleteUser", Null)
        IN Handled("DELETE /api/users/:id", id, noBody, header, t, g,
                   deleteUsersId(storage, g.req, id, t))

PostDepartments ==
    \E header \in Headers, body \in DepartmentBodies, t \in Readings :
        LET g == guarded(storage, rolePermissions, header, "POST",
                         "/api/departments", "createDepartment", body.userId)
        IN Handled("POST /api/departments", Null, body, header, t, g,
                   postDepartments(storage, g.req, body.valid, body.data, t))

PutDepartmentsId ==
    \E header \in Headers, id \in DepartmentIds, body \in DepartmentBodies,
       t \in Readings :
        LET g == guarded(storage, rolePermissions, header, "PUT",
                         "/api/departments/:id", "editDepartment", body.userId)
        IN Handled("PUT /api/departments/:id", id, body, header, t, g,
                   putDepartmentsId(storage, g.req, id, body.valid, body.data, t))

DeleteDepartmentsId ==
    \E header \in Headers, id \in DepartmentIds, t \in Readings :
        LET g == guarded(storage, rolePermissions, header, "DELETE",
                         "/api/departments/:id", "deleteDepartment", Null)
        IN Handled("DELETE /api/departments/:id", id, noBody, header, t, g,
                   deleteDepartmentsId(storage, g.req, id, t))

PostShifts ==
    \E header \in Headers, body \in PostShiftBodies, t \in Readings :
        LET g == guarded(storage, rolePermissions, header, "POST", "/api/shifts",
                         "createShift", body.userId)
        IN Handled("POST /api/shifts", Null, body, header, t, g,
                   postShifts(storage, g.req, body.valid, body.data,
                              body.notifyEmployee, t))

PutShiftsId ==
    \E header \in Headers, id \in RouteShiftIds, body \in PutShiftBodies,
       t \in Readings :
        LET g == guardedPutShiftsId(storage, rolePermissions, header, id, body.userId)
        IN Handled("PUT /api/shifts/:id", id, body, header, t, g,
                   putShiftsId(storage, g.req, id, body.valid, body.data,
                               body.notifyEmployee, t))

DeleteShiftsId ==
    \E header \in Headers, id \in RouteShiftIds, body \in DeleteShiftBodies,
       t \in Readings :
        LET g == guarded(storage, rolePermissions, header, "DELETE",
                         "/api/shifts/:id", "deleteShift", body.userId)
        IN Handled("DELETE /api/shifts/:id", id, body, header, t, g,
                   deleteShiftsId(storage, g.req, id, body.notifyEmployee, t))

PostTimeOffIdApprove ==
    \E id \in RouteTimeOffRequestIds, reviewerId \in RouteReviewerIds,
       t \in Readings :
        Handled("POST /api/time-off/:id/approve", id, ReviewBody(reviewerId), Null,
                t, unguarded, postTimeOffIdApprove(storage, id, reviewerId, t))

PostTimeOffIdDeny ==
    \E id \in RouteTimeOffRequestIds, reviewerId \in RouteReviewerIds,
       t \in Readings :
        Handled("POST /api/time-off/:id/deny", id, ReviewBody(reviewerId), Null,
                t, unguarded, postTimeOffIdDeny(storage, id, reviewerId, t))

NextRoutes ==
    \/ PostUsers \/ DeleteUsersId
    \/ PutDepartmentsId \/ DeleteDepartmentsId
    \/ PostShifts \/ PutShiftsId \/ DeleteShiftsId
    \/ PostTimeOffIdApprove \/ PostTimeOffIdDeny

\* Any sequence of HTTP requests to the routes that write.
SpecRoutes == Init /\ [][NextRoutes]_vars

\* Any sequence of requests that create and delete users, create, change and
\* delete departments, and create the shifts and notifications that refer to
\* a user.
NextDirectory ==
    \/ PostUsers \/ DeleteUsersId
    \/ PostDepartments \/ PutDepartmentsId \/ DeleteDepartmentsId
    \/ PostShifts

SpecDirectory == Init /\ [][NextDirectory]_vars

\* --- the activity feed and the messages

\* The route has no middleware.
GetActivitiesList ==
    \E limit \in {"", "abc", "0", "1", "2", "7"} :
        Served("GET /api/activities", Null,
               [noBody EXCEPT !.data = [limit |-> limit]], Null, unguarded,
               getActivitiesList(storage, limit))

NextFeeds ==
    \/ CreateActivity \/ GetActivities \/ GetActivitiesList
    \/ CreateMessage \/ MarkMessageAsRead \/ GetUnreadMessageCount

\* The activity feed and the messages as they are written and read.
SpecFeeds == Init /\ [][NextFeeds]_vars

\* --- requests interleaved at their awaits

\* approveTimeOffRequest / denyTimeOffRequest under POST /api/time-off/:id/approve
\* and .../deny, resumed from the await r is suspended at and run to its next
\* await.  A storage method runs synchronously up to its own first await, so
\* the value of an await was read when the method was called.
reviewTimeOffRequestResumed(s, r, t) ==
    CASE r.pc = "request" ->
            IF r.read = NotFound
            THEN [st |-> s, r |-> [r EXCEPT !.pc = "done", !.status = 404]]
            ELSE LET updatedRequest ==
                         Spread(r.read,
                                [status |-> IF r.op = "POST /api/time-off/:id/approve"
                                            THEN "approved" ELSE "denied",
                                 reviewedBy |-> r.reviewerId, reviewedAt |-> t])
                     s1 == [s EXCEPT !.timeOffRequests =
                                        MapSet(s.timeOffRequests, r.id, updatedRequest)]
                 IN [st |-> s1,
                     r |-> [r EXCEPT !.pc = "reviewer",
                                     !.first = getUser(s1, r.reviewerId)]]
      [] r.pc = "reviewer" ->
            [st |-> s,
             r |-> [r EXCEPT !.pc = "requester", !.second = getUser(s, r.read.userId)]]
      [] r.pc = "requester" ->
            [st |-> IF r.first # NotFound /\ r.second # NotFound
                    THEN createActivity(s,
                             [type |-> IF r.op = "POST /api/time-off/:id/approve"
                                       THEN "approval" ELSE "denial",
                              userId |-> r.reviewerId,
                              relatedUserId |-> r.read.userId], t).st
                    ELSE s,
             r |-> [r EXCEPT !.pc = "done", !.status = 200]]

\* The second handler of PUT /api/shifts/:id, with MemStorage.updateShift
\* inside it, resumed from the await r is suspended at and run to its next
\* await.  r.first is existingShift, r.read the shift updateShift has read,
\* then updatedShift, r.second the user.
putShiftsIdResumed(s, r, t) ==
    CASE r.pc = "existingShift" ->
            IF r.first = NotFound
            THEN [st |-> s, r |-> [r EXCEPT !.pc = "done", !.status = 404]]
            ELSE IF ~r.valid
            THEN [st |-> s, r |-> [r EXCEPT !.pc = "done", !.status = 400]]
            ELSE [st |-> s, r |-> [r EXCEPT !.pc = "shift", !.read = getShift(s, r.id)]]
      [] r.pc = "shift" ->
            IF r.read = NotFound
            THEN [st |-> s, r |-> [r EXCEPT !.pc = "updatedShift"]]
            ELSE LET updatedShift == Spread(r.read, r.arg)
                 IN [st |-> [s EXCEPT !.shifts = MapSet(s.shifts, r.id, updatedShift)],
                     r |-> [r EXCEPT !.pc = "updatedShift", !.read = updatedShift]]
      [] r.pc = "updatedShift" ->
            [st |-> s,
             r |-> [r EXCEPT !.pc = "user", !.second = getUser(s, r.first.userId)]]
      [] r.pc = "user" ->
            IF r.second = NotFound
            THEN [st |-> s, r |-> [r EXCEPT !.pc = "done", !.status = 200]]
            ELSE [st |-> createActivity(s, [type |-> "shift_updated",
                                            userId |-> currentUserIdOrNull(r.req),
                                            relatedUserId |-> r.first.userId], t).st,
                  r |-> [r EXCEPT !.pc = "activity"]]
      [] r.pc = "activity" ->
            [st |-> IF r.notify
                    THEN createMessage(s, shiftNotification(r.req, r.second,
                                           "Modification de votre horaire"), t).st
                    ELSE s,
             r |-> [r EXCEPT !.pc = "done", !.status = 200]]

\* A review request arrives: the handler runs to its first await, which is
\* that of the storage method on the request it has just read.
ReceiveReview ==
    \E slot \in DOMAIN inflight,
       op \in {"POST /api/time-off/:id/approve", "POST /api/time-off/:id/deny"},
       id \in {1, 4}, reviewerId \in RouteReviewerIds :
        /\ nops < MaxRequests
        /\ inflight[slot].pc \in {"idle", "done"}
        /\ inflight' =
              [inflight EXCEPT ![slot] =
                  IF reviewerId = Null
                  THEN [idle EXCEPT !.pc = "done", !.op = op, !.id = id, !.status = 400]
                  ELSE [idle EXCEPT !.pc = "request", !.op = op, !.id = id,
                                    !.reviewerId = reviewerId,
                                    !.read = getTimeOffRequest(storage, id)]]
        /\ last' = [noCall EXCEPT !.op = "receive", !.id = id,
                                  !.reviewerId = reviewerId, !.at = now]
        /\ pre' = Snapshot
        /\ nops' = nops + 1
        /\ UNCHANGED <<storage, rolePermissions, now, issued>>

\* A PUT /api/shifts/:id of the default manager arrives and passes the
\* middleware: the second handler runs to its first await.
ReceivePutShiftsId ==
    \E slot \in DOMAIN inflight, id \in RouteShiftIds, body \in PutShiftBodies :
        LET g == guardedPutShiftsId(storage, rolePermissions, 1, id, body.userId)
        IN /\ nops < MaxRequests
           /\ inflight[slot].pc \in {"idle", "done"}
           /\ g.next
           /\ inflight' =
                 [inflight EXCEPT ![slot] =
                     [idle EXCEPT !.pc = "existingShift",
                                  !.op = "PUT /api/shifts/:id", !.id = id,
                                  !.arg = body.data, !.valid = body.valid,
                                  !.notify = body.notifyEmployee, !.req = g.req,
                                  !.first = getShift(storage, id)]]
           /\ last' = [noCall EXCEPT !.op = "receive", !.id = id, !.arg = body.data,
                                     !.at = now]
           /\ pre' = Snapshot
           /\ nops' = nops + 1
           /\ UNCHANGED <<storage, rolePermissions, now, issued>>

\* The event loop resumes one of the suspended handlers, which runs to its
\* next await or to its response.
Resume ==
    \E slot \in DOMAIN inflight, t \in Readings :
        LET r == inflight[slot]
            n == IF r.op = "PUT /api/shifts/:id"
                 THEN putShiftsIdResumed(storage, r, t)
                 ELSE reviewTimeOffRequestResumed(storage, r, t)
        IN /\ r.pc \notin {"idle", "done"}
           /\ t # now => n.st # storage
           /\ storage' = n.st
           /\ inflight' = [inflight EXCEPT ![slot] = n.r]
           /\ issued' = issuedAfter(n.st, "none", {})
           /\ last' = [noCall EXCEPT !.op = r.op, !.id = r.id, !.status = n.r.status,
                                     !.reviewerId = r.reviewerId, !.at = t]
           /\ pre' = Snapshot
           /\ now' = t
           /\ UNCHANGED <<rolePermissions, nops>>

\* GET /api/time-off/:id (no middleware): its one storage call reads the
\* request when the handler is called.
GetTimeOffId ==
    \E id \in {1, 4, 9} :
        LET request == getTimeOffRequest(storage, id)
        IN Served("GET /api/time-off/:id", id, noBody, Null, unguarded,
                  IF request = NotFound
                  THEN [st |-> storage, status |-> 404, body |-> EmptyObject]
                  ELSE [st |-> storage, status |-> 200, body |-> request])

NextInterleaved ==
    \/ CreateTimeOffRequest
    \/ ReceiveReview \/ ReceivePutShiftsId \/ Resume
    \/ GetTimeOffId

\* Requests handled concurrently: each handler runs from one await to the
\* next, and between two of its runs the handlers of other requests run.
SpecInterleaved == Init /\ [][NextInterleaved]_vars

\* --- the user routes

\* Bodies of PUT /api/users/:id: a new password, and a new username, that of
\* the default manager, with it.
PutUserBodies ==
    {Body(FALSE, EmptyObject, FALSE),
     Body(TRUE, [password |-> "pw"], FALSE),
     Body(TRUE, [username |-> "admin", password |-> "pw"], FALSE)}

PutUserIds == {1, 2, 9}

\* What a caller of POST /api/login sends: a default username, the username
\* of the user created later, none; the default password, another, none.
Usernames == {"admin", "bob", ""}
Passwords == {"password", "pw", ""}

PutUsersId ==
    \E header \in Headers, id \in PutUserIds, body \in PutUserBodies :
        LET g == guardedPutUsersId(storage, rolePermissions, header, id)
        IN Handled("PUT /api/users/:id", id, body, header, now, g,
                   putUsersId(storage, id, body.valid,
                              putUsersIdFilter(g.req, id, body.data)))

GetUsers ==
    \E header \in Headers :
        Served("GET /api/users", Null, noBody, header,
               guarded(storage, rolePermissions, header, "GET", "/api/users",
                       "viewUsers", Null),
               getUsersList(storage))

GetUsersId ==
    \E header \in Headers, id \in PutUserIds :
        Served("GET /api/users/:id", id, noBody, header,
               guarded(storage, rolePermissions, header, "GET", "/api/users/:id",
                       "viewUsers", Null),
               getUsersId(storage, id))

PostLogin ==
    \E username \in Usernames, password \in Passwords :
        Served("POST /api/login", Null,
               Body(TRUE, [username |-> username, password |-> password], FALSE),
               Null, unguarded, postLogin(storage, username, password))

NextUsers ==
    \/ PostUsers \/ PutUsersId \/ DeleteUsersId
    \/ GetUsers \/ GetUsersId \/ PostLogin

\* The user routes and the login.
SpecUsers == Init /\ [][NextUsers]_vars

NextAuthorize == Authorize \/ PostUsers \/ DeleteUsersId

\* The two middlewares on their own, for every capability, while users are
\* created and deleted.
SpecAuthorize == Init /\ [][NextAuthorize]_vars

\* storage.createUser with a role as free as the schema leaves it
\* (role: text): one outside the table, and the empty string.
CreateUserOfAnyRole ==
    \E role \in {"intern", ""} :
        LET user == [username |-> "eve", password |-> "pw", role |-> role,
                     department |-> "Service"]
        IN Created("createUser", "users", user, now, createUser(storage, user))

NextRoles == CreateUserOfAnyRole \/ Authorize

\* The two middlewares for users of any stored role.
SpecRoles == Init /\ [][NextRoles]_vars

\* --- the routes that show shifts

\* GET /api/shifts.  query holds req.query: userId a string ("" when absent),
\* startDate and endDate the Dates their strings denote (Null when absent).
getShiftsList(s, req, query) ==
    IF req.hasUser /\ req.currentUser.role = "employee" /\ query.userId = ""
    THEN [st |-> s, status |-> 200,
          body |-> [rows |-> getShiftsByUser(s, req.currentUser.id)]]
    ELSE IF query.startDate # Null /\ query.endDate # Null
    THEN [st |-> s, status |-> 200,
          body |-> [rows |-> getShiftsByDateRange(s, query.startDate, query.endDate)]]
    ELSE IF query.userId # ""
    THEN IF query.userId \notin DOMAIN parseInt
         THEN [st |-> s, status |-> 400, body |-> EmptyObject]
         ELSE [st |-> s, status |-> 200,
               body |-> [rows |-> getShiftsByUser(s, parseInt[query.userId])]]
    ELSE [st |-> s, status |-> 200, body |-> [rows |-> getShifts(s)]]

\* GET /api/shifts/:id
getShiftsId(s, req, id) ==
    LET shift == getShift(s, id)
    IN IF shift = NotFound THEN [st |-> s, status |-> 404, body |-> EmptyObject]
       ELSE IF /\ req.hasUser
               /\ req.currentUser.role = "employee"
               /\ shift.userId # req.currentUser.id
       THEN [st |-> s, status |-> 403, body |-> EmptyObject]
       ELSE [st |-> s, status |-> 200, body |-> shift]

\* The callers: nobody, the default manager, two default employees.
GetShiftsList ==
    \E header \in {Null, 1, 2, 3}, userId \in {"", "abc", "1", "2"},
       startDate \in {Null, 2}, endDate \in {Null, 7} :
        LET g == guarded(storage, rolePermissions, header, "GET", "/api/shifts",
                         "viewShifts", Null)
            query == [userId |-> userId, startDate |-> startDate, endDate |-> endDate]
        IN Served("GET /api/shifts", Null, [noBody EXCEPT !.data = query], header, g,
                  getShiftsList(storage, g.req, query))

GetShiftsId ==
    \E header \in {Null, 1, 2, 3}, id \in RouteShiftIds :
        LET g == guarded(storage, rolePermissions, header, "GET", "/api/shifts/:id",
                         "viewShifts", Null)
        IN Served("GET /api/shifts/:id", id, noBody, header, g,
                  getShiftsId(storage, g.req, id))

NextShiftViews ==
    \/ CreateShift \/ UpdateShift
    \/ GetShiftsList \/ GetShiftsId

\* Shifts are stored and changed, and shown to whoever asks.
SpecShiftViews == Init /\ [][NextShiftViews]_vars

\* ================================================================ claims

CreateOps ==
    {"createUser", "createDepartment", "createShift", "createTimeOffRequest",
     "createActivity", "createMessage"}

UpdateOps == {"updateUser", "updateDepartment", "updateShift", "updateTimeOffRequest"}

DeleteOps == {"deleteUser", "deleteDepartment", "deleteShift"}

ReviewOps == {"approveTimeOffRequest", "denyTimeOffRequest"}

\* The get method of each map.
Get(s, m, id) ==
    CASE m = "users" -> getUser(s, id)
      [] m = "departments" -> getDepartment(s, id)
      [] m = "shifts" -> getShift(s, id)
      [] m = "timeOffRequests" -> getTimeOffRequest(s, id)
      [] m = "activities" -> getActivity(s, id)
      [] OTHER -> getMessage(s, id)

\* Ids to probe the maps with: every id in use and some beyond.
ProbeIds == 0 .. 20

\* C1: every id a create assigns is a positive integer strictly greater than
\* every id assigned before for that kind of entity, deleted ones included:
\* this holds of the id each create returns and of every key a call adds to
\* a map.
C1_IdsIncrease ==
    /\ \A m \in MapFields :
         \A id \in (DOMAIN storage[m]) \ (DOMAIN pre.storage[m]) :
            /\ id > 0
            /\ \A j \in pre.issued[m] : id > j
    /\ last.op \in CreateOps =>
         /\ last.ret.id > 0
         /\ \A j \in pre.issued[last.map] : last.ret.id > j

\* A shift was created after a shift, whose id had been assigned, was deleted.
C1_Witness ==
    /\ last.op = "createShift"
    /\ \E j \in pre.issued["shifts"] : j \notin DOMAIN pre.storage["shifts"]

\* C2: each map is an abstract map from id to entity.  After a create, get
\* of the returned id yields the returned entity; after an update that found
\* its id, get of it yields the returned entity; after a delete, get of the id
\* is not-found and the call returned true exactly when the id was present
\* (and left the storage as it was when it returned false); get of every
\* other id of every map yields what it yielded before the call; and get of an
\* id that was never assigned is not-found.
C2_StoreIsMap ==
    /\ \A m \in MapFields : \A id \in ProbeIds :
          id \notin issued[m] => Get(storage, m, id) = NotFound
    /\ last.op \in CreateOps \cup UpdateOps \cup DeleteOps =>
          \A m \in MapFields : \A id \in ProbeIds :
             Get(storage, m, id) =
                IF m = last.map /\ id = last.id
                THEN IF last.op \in DeleteOps THEN NotFound
                     ELSE IF last.found THEN last.ret
                     ELSE Get(pre.storage, m, id)
                ELSE Get(pre.storage, m, id)
    /\ last.op \in UpdateOps =>
          last.found = (Get(pre.storage, last.map, last.id) # NotFound)
    /\ last.op \in DeleteOps =>
          /\ last.deleted = (Get(pre.storage, last.map, last.id) # NotFound)
          /\ ~last.deleted => storage = pre.storage

\* A user that had been created or updated before was deleted.
C2_Witness ==
    /\ last.op = "deleteUser"
    /\ last.deleted
    /\ nops >= 2

\* C3 (as claimed): an update never changes the id.  For updateUser,
\* updateDepartment, updateShift and updateTimeOffRequest and every partial
\* the method accepts, the returned entity and the entity stored under the
\* key both carry the key as their id, and every field the partial omits keeps
\* its value.
C3_UpdateKeepsId ==
    (last.op \in UpdateOps /\ last.found) =>
        /\ last.ret.id = last.id
        /\ storage[last.map][last.id].id = last.id
        /\ \A f \in (DOMAIN pre.storage[last.map][last.id]) \ (DOMAIN last.arg) :
              last.ret[f] = pre.storage[last.map][last.id][f]

\* C4 (as claimed): after approveTimeOffRequest on an existing request, the
\* stored and the returned request have status approved, reviewedBy equal to
\* the reviewer, a reviewedAt that is not null and not earlier than createdAt,
\* and the userId, startDate, endDate, reason and createdAt they had.
C4_ApproveResult ==
    (last.op = "approveTimeOffRequest" /\ last.found) =>
        LET old == pre.storage["timeOffRequests"][last.id]
        IN /\ storage["timeOffRequests"][last.id] = last.ret
           /\ last.ret.status = "approved"
           /\ last.ret.reviewedBy = last.reviewerId
           /\ last.ret.reviewedAt # Null
           /\ last.ret.reviewedAt >= last.ret.createdAt
           /\ \A f \in {"userId", "startDate", "endDate", "reason", "createdAt"} :
                 last.ret[f] = old[f]

\* C5 (as claimed): a review is final.  Once a request is approved or denied,
\* no approveTimeOffRequest or denyTimeOffRequest call changes its status,
\* reviewedBy or reviewedAt.
C5_ReviewIsFinal ==
    (last.op \in ReviewOps /\ last.found) =>
        LET old == pre.storage["timeOffRequests"][last.id]
        IN old.status \in {"approved", "denied"} =>
              \A f \in {"status", "reviewedBy", "reviewedAt"} :
                 storage["timeOffRequests"][last.id][f] = old[f]

\* C7: a review of an existing request whose reviewer or requester is not a
\* stored user still commits: the returned request, which is the one stored,
\* has the new status, the reviewer and the time of the call; and it writes
\* no activity.
C7_ReviewWithoutUsers ==
    (/\ last.op \in ReviewOps
     /\ last.found
     /\ \/ last.reviewerId \notin DOMAIN pre.storage["users"]
        \/ pre.storage["timeOffRequests"][last.id].userId
              \notin DOMAIN pre.storage["users"])
    => /\ storage["timeOffRequests"][last.id] = last.ret
       /\ last.ret.status =
             (IF last.op = "approveTimeOffRequest" THEN "approved" ELSE "denied")
       /\ last.ret.reviewedBy = last.reviewerId
       /\ last.ret.reviewedAt = last.at
       /\ storage["activities"] = pre.storage["activities"]
       /\ storage["activityIdCounter"] = pre.storage["activityIdCounter"]

\* A request was denied by a stored reviewer while its requester is no
\* stored user.
C7_Witness ==
    /\ last.op = "denyTimeOffRequest"
    /\ last.found
    /\ last.reviewerId \in DOMAIN pre.storage["users"]
    /\ pre.storage["timeOffRequests"][last.id].userId
          \notin DOMAIN pre.storage["users"]
    /\ storage["timeOffRequests"][last.id].status = "denied"

\* The operations of C6 and the map that holds their primary entity.
PrimaryMap(op) ==
    CASE op \in {"POST /api/time-off/:id/approve", "POST /api/time-off/:id/deny"}
            -> "timeOffRequests"
      [] op \in {"PUT /api/shifts/:id", "DELETE /api/shifts/:id"} -> "shifts"
      [] op \in {"PUT /api/departments/:id", "DELETE /api/departments/:id"}
            -> "departments"
      [] op = "DELETE /api/users/:id" -> "users"
      [] OTHER -> "none"

\* The request got as far as the operation: it was not turned away by the
\* middleware (401, 403) or for the shape of its body (400).  The first
\* handler of PUT /api/shifts/:id looks the shift up before it checks any
\* permission.
ReachedOperation ==
    CASE last.op \in {"POST /api/time-off/:id/approve", "POST /api/time-off/:id/deny"}
            -> last.reviewerId # Null
      [] last.op = "PUT /api/shifts/:id" -> last.status # 401
      [] last.op = "PUT /api/departments/:id" -> last.allowed /\ last.valid
      [] OTHER -> last.allowed

\* C6: when the primary entity's id does not resolve, approving or denying a
\* time-off request, updating or deleting a shift, updating or deleting a
\* department and deleting a user create, change and remove nothing (no
\* activity and no message is written, no counter moves), never report
\* success, and report not-found (404) whenever the request got as far as the
\* operation.
C6_NotFoundNoEffect ==
    (/\ PrimaryMap(last.op) # "none"
     /\ Get(pre.storage, PrimaryMap(last.op), last.id) = NotFound)
    => /\ storage = pre.storage
       /\ last.status \in {400, 401, 403, 404}
       /\ ReachedOperation => last.status = 404

\* Deleting a shift that does not exist, with a notification asked for, was
\* answered 404.
C6_Witness ==
    /\ last.op = "DELETE /api/shifts/:id"
    /\ last.id \notin DOMAIN pre.storage["shifts"]
    /\ last.notify
    /\ last.status = 404
    /\ nops = 2

C9_OwnShiftFallback ==
    (/\ last.perm = "editShift"
     /\ last.identified
     /\ last.role = "employee"
     /\ ~rolePermissions["employee"]["editShift"]
     /\ rolePermissions["employee"]["editOwnShift"]
     /\ last.bodyUserId = last.actor)
    => /\ last.allowed
       /\ last.status # 403

\* C10: a request identified as an employee never creates a shift and never
\* changes or removes a shift that another user owned before the request.
\* POST /api/shifts, DELETE /api/shifts/:id, and PUT /api/shifts/:id on a shift
\* owned by someone else, are answered 403 and leave the shifts, the
\* activities and the messages as they were.
C10_EmployeeShifts ==
    (last.identified /\ last.role = "employee") =>
        /\ DOMAIN storage["shifts"] \subseteq DOMAIN pre.storage["shifts"]
        /\ \A id \in DOMAIN pre.storage["shifts"] :
              pre.storage["shifts"][id].userId # last.actor =>
                 /\ id \in DOMAIN storage["shifts"]
                 /\ storage["shifts"][id] = pre.storage["shifts"][id]
        /\ (\/ last.op \in {"POST /api/shifts", "DELETE /api/shifts/:id"}
            \/ /\ last.op = "PUT /api/shifts/:id"
               /\ last.id \in DOMAIN pre.storage["shifts"]
               /\ pre.storage["shifts"][last.id].userId # last.actor)
           => /\ last.status = 403
              /\ \A m \in {"shifts", "activities", "messages"} :
                    storage[m] = pre.storage[m]

\* An employee asked to hand over to themself a shift owned by another stored
\* user, and was answered 403.
C10_Witness ==
    /\ last.op = "PUT /api/shifts/:id"
    /\ last.identified
    /\ last.role = "employee"
    /\ last.id \in DOMAIN pre.storage["shifts"]
    /\ pre.storage["shifts"][last.id].userId \in DOMAIN pre.storage["users"]
    /\ pre.storage["shifts"][last.id].userId # last.actor
    /\ last.bodyUserId = last.actor
    /\ last.status = 403

\* C11 (as claimed): a 403 of checkPermission("editShift") given to an actor
\* whose role holds editOwnShift and who is not the owner of the shift (the
\* body's userId is not the actor's id) carries the reason "you may only edit
\* your own shifts", which is not the reason given for a capability the role
\* simply lacks.
C11_DenialReason ==
    (/\ last.perm = "editShift"
     /\ last.identified
     /\ last.role \in Roles
     /\ rolePermissions[last.role]["editOwnShift"]
     /\ last.bodyUserId # last.actor
     /\ last.status = 403)
    => /\ last.detail = "ownShiftsOnly"
       /\ last.detail # "noPermission"

\* C12 (as claimed): a request to the approve or deny route changes a
\* time-off request only when it is identified as a stored user whose role
\* holds approveTimeOff.
C12_ReviewNeedsCapability ==
    (/\ last.op \in {"POST /api/time-off/:id/approve", "POST /api/time-off/:id/deny"}
     /\ storage["timeOffRequests"] # pre.storage["timeOffRequests"])
    => /\ last.identified
       /\ last.role \in Roles
       /\ rolePermissions[last.role]["approveTimeOff"]

\* The capability that a route acting on one stored entity asks for.
RouteCapability(op) ==
    CASE op = "DELETE /api/users/:id" -> "deleteUser"
      [] op = "PUT /api/departments/:id" -> "editDepartment"
      [] op = "DELETE /api/departments/:id" -> "deleteDepartment"
      [] op = "PUT /api/shifts/:id" -> "editShift"
      [] op = "DELETE /api/shifts/:id" -> "deleteShift"
      [] OTHER -> "none"

\* The caller of the last request is a stored user whose role lacks the
\* capability of the route (for PUT /api/shifts/:id: lacks editShift, and is
\* not the owner of a stored shift with editOwnShift).
CallerLacksCapability ==
    /\ RouteCapability(last.op) # "none"
    /\ last.identified
    /\ last.role \in Roles
    /\ ~rolePermissions[last.role][RouteCapability(last.op)]
    /\ ~(/\ last.op = "PUT /api/shifts/:id"
         /\ rolePermissions[last.role]["editOwnShift"]
         /\ last.id \in DOMAIN pre.storage["shifts"]
         /\ pre.storage["shifts"][last.id].userId = last.actor)

\* C13 (as claimed): on every route that changes or removes one entity and
\* asks for a capability, a caller whose role lacks the capability is
\* answered 403 whether or not the target exists, and so never 404.
C13_DenialBeforeNotFound ==
    CallerLacksCapability => last.status = 403

\* The entities of map m that the last call or request added.
Added(m) == (DOMAIN storage[m]) \ (DOMAIN pre.storage[m])

\* The last call or request left every entity that map m held as it was.
Kept(m) ==
    \A id \in DOMAIN pre.storage[m] :
        id \in DOMAIN storage[m] /\ storage[m][id] = pre.storage[m][id]

\* C14: POST /api/shifts with a valid body and notifyEmployee set, let
\* through by the middleware, for a userId that is a stored user, answers
\* 201, stores the shift, and adds exactly one activity (type shift_added,
\* relatedUserId the owner) and exactly one message (receiverId the owner,
\* senderId the id of req.currentUser or null without one, messageType
\* notification, priority high, isRead false); nothing else is touched.
C14_ShiftCreatedNotified ==
    (/\ last.op = "POST /api/shifts"
     /\ last.allowed
     /\ last.valid
     /\ last.notify
     /\ last.arg.userId \in DOMAIN pre.storage["users"])
    => LET sid == pre.storage.shiftIdCounter
           aid == pre.storage.activityIdCounter
           mid == pre.storage.messageIdCounter
       IN /\ last.status = 201
          /\ Added("shifts") = {sid}
          /\ storage["shifts"][sid] = Spread(last.arg, [id |-> sid])
          /\ Added("activities") = {aid}
          /\ storage["activities"][aid].type = "shift_added"
          /\ storage["activities"][aid].relatedUserId = last.arg.userId
          /\ storage["activities"][aid].userId = last.actor
          /\ Added("messages") = {mid}
          /\ storage["messages"][mid].receiverId = last.arg.userId
          /\ storage["messages"][mid].senderId = last.actor
          /\ storage["messages"][mid].messageType = "notification"
          /\ storage["messages"][mid].priority = "high"
          /\ storage["messages"][mid].isRead = FALSE
          /\ \A m \in MapFields : Kept(m)
          /\ \A m \in {"users", "departments", "timeOffRequests"} : Added(m) = {}

\* An identified user created a shift for a stored user and asked for the
\* notification, which was sent in that user's name.
C14_Witness ==
    /\ last.op = "POST /api/shifts"
    /\ last.status = 201
    /\ last.notify
    /\ last.identified
    /\ last.arg.userId \in DOMAIN pre.storage["users"]
    /\ Added("messages") # {}

\* The owner of the shift that the last shift request is about: the body's
\* userId for a creation, the stored shift's userId otherwise.
ShiftOwner ==
    IF last.op = "POST /api/shifts" THEN last.arg.userId
    ELSE pre.storage["shifts"][last.id].userId

\* C15: a shift request let through by the middleware, with a valid body, on
\* a stored shift (or creating one), whose owner is not a stored user, is
\* answered with success (201, 200, 204), stores, changes or removes the
\* shift, and writes no activity and no message, whatever notifyEmployee is.
C15_ShiftOwnerUnresolved ==
    (/\ last.op \in {"POST /api/shifts", "PUT /api/shifts/:id", "DELETE /api/shifts/:id"}
     /\ last.allowed
     /\ last.valid
     /\ (last.op # "POST /api/shifts" => last.id \in DOMAIN pre.storage["shifts"])
     /\ ShiftOwner \notin DOMAIN pre.storage["users"])
    => /\ CASE last.op = "POST /api/shifts" ->
                 /\ last.status = 201
                 /\ Added("shifts") = {pre.storage.shiftIdCounter}
                 /\ storage["shifts"][pre.storage.shiftIdCounter] =
                       Spread(last.arg, [id |-> pre.storage.shiftIdCounter])
            [] last.op = "PUT /api/shifts/:id" ->
                 /\ last.status = 200
                 /\ storage["shifts"][last.id] =
                       Spread(pre.storage["shifts"][last.id], last.arg)
            [] OTHER ->
                 /\ last.status = 204
                 /\ last.id \notin DOMAIN storage["shifts"]
       /\ storage["activities"] = pre.storage["activities"]
       /\ storage["messages"] = pre.storage["messages"]
       /\ storage.activityIdCounter = pre.storage.activityIdCounter
       /\ storage.messageIdCounter = pre.storage.messageIdCounter

\* A shift was created, with the notification asked for, for a user that had
\* been deleted.
C15_Witness ==
    /\ last.op = "POST /api/shifts"
    /\ last.status = 201
    /\ last.notify
    /\ last.arg.userId \notin DOMAIN pre.storage["users"]
    /\ pre.storage.shiftIdCounter \in DOMAIN storage["shifts"]

\* The values of a sequence.
Range(seq) == {seq[i] : i \in 1 .. Len(seq)}

\* C16 (as claimed): getShiftsByDateRange(startDate, endDate) returns exactly
\* the stored shifts whose date is on a calendar day from the day of
\* startDate to the day of endDate, both included, whatever the time of day
\* of the three dates.
C16_DateRangeByDay ==
    last.op = "getShiftsByDateRange" =>
        Range(last.ret.rows) =
            {shift \in Range(Values(storage["shifts"])) :
                /\ DayOf(last.arg.startDate) <= DayOf(shift.date)
                /\ DayOf(shift.date) <= DayOf(last.arg.endDate)}

\* Activity a comes before activity b in the order claimed: newer first, and
\* of two with the same createdAt the one with the higher id first.
NewerFirst(a, b) ==
    \/ a.createdAt > b.createdAt
    \/ a.createdAt = b.createdAt /\ a.id > b.id

\* C17 (as claimed): getActivities(n) with n >= 1 returns min(n, total)
\* stored activities, each before the next in the order newest first with the
\* higher id first among equal createdAt, and every activity left out comes
\* after every activity returned in that order.
C17_NewestFirstHigherId ==
    (last.op = "getActivities" /\ last.arg.limit >= 1) =>
        LET rows == last.ret.rows
            all == Range(Values(storage["activities"]))
            total == Cardinality(all)
        IN /\ Len(rows) = (IF last.arg.limit < total THEN last.arg.limit ELSE total)
           /\ Range(rows) \subseteq all
           /\ \A i \in 1 .. Len(rows), j \in 1 .. Len(rows) :
                 i < j => NewerFirst(rows[i], rows[j])
           /\ \A a \in all \ Range(rows), b \in Range(rows) : NewerFirst(b, a)

UnreadOf(s, U) ==
    {id \in DOMAIN s["messages"] :
        s["messages"][id].receiverId = U /\ ~s["messages"][id].isRead}

\* C19: getUnreadMessageCount(U) is the number of stored messages with
\* receiverId = U and isRead = false, and marking an unread message as read
\* lowers the count of its receiver by one and no other user's count.
C19_UnreadCount ==
    /\ last.op = "getUnreadMessageCount" =>
          last.ret.count = Cardinality(UnreadOf(storage, last.arg.userId))
    /\ (/\ last.op = "markMessageAsRead"
        /\ last.found
        /\ ~pre.storage["messages"][last.id].isRead) =>
          \A U \in {1, 2, 3} :
              getUnreadMessageCount(storage, U) =
                  getUnreadMessageCount(pre.storage, U) -
                     (IF pre.storage["messages"][last.id].receiverId = U THEN 1 ELSE 0)

\* User 1 has sent a message, still unread, and has received none: the count
\* for user 1 is 0.
C19_Witness ==
    /\ last.op = "getUnreadMessageCount"
    /\ last.arg.userId = 1
    /\ last.ret.count = 0
    /\ \E id \in DOMAIN storage["messages"] :
          storage["messages"][id].senderId = 1 /\ ~storage["messages"][id].isRead

\* The stored users that have the username and the password of the last
\* login.
LoginMatches ==
    {user \in Range(Values(storage["users"])) :
        user.username = last.arg.username /\ user.password = last.arg.password}

\* No object of a response body carries a password field.
NoPasswordInBody ==
    /\ "password" \notin DOMAIN last.ret
    /\ "user" \in DOMAIN last.ret => "password" \notin DOMAIN last.ret.user
    /\ "rows" \in DOMAIN last.ret =>
          \A i \in 1 .. Len(last.ret.rows) : "password" \notin DOMAIN last.ret.rows[i]

\* C20 (as claimed): POST /api/login with a username and a password answers
\* with a stored user that has that username and that password, without its
\* password field, exactly when there is such a user, and with 401 (invalid
\* credentials) otherwise; and no response of the login or of a user route
\* carries a password field.
C20_Login ==
    /\ (/\ last.op = "POST /api/login"
        /\ last.arg.username # ""
        /\ last.arg.password # "") =>
          IF LoginMatches # {}
          THEN /\ last.status = 200
               /\ \E user \in LoginMatches : last.ret.user = Without(user, "password")
          ELSE last.status = 401
    /\ last.op \in {"POST /api/login", "GET /api/users", "GET /api/users/:id",
                    "POST /api/users", "PUT /api/users/:id", "DELETE /api/users/:id"}
          => NoPasswordInBody

\* The second half of C20 on its own: no response carries a password.
C20_NoPasswordSent ==
    last.op \in {"POST /api/login", "GET /api/users", "GET /api/users/:id",
                 "POST /api/users", "PUT /api/users/:id", "DELETE /api/users/:id"}
       => NoPasswordInBody

\* C21 (as claimed): no two stored users have the same username and no two
\* stored departments have the same name.
C21_UniqueKeys ==
    /\ \A i \in DOMAIN storage["users"], j \in DOMAIN storage["users"] :
          i # j => storage["users"][i].username # storage["users"][j].username
    /\ \A i \in DOMAIN storage["departments"], j \in DOMAIN storage["departments"] :
          i # j => storage["departments"][i].name # storage["departments"][j].name

Unreviewed(request) ==
    /\ request.status = "pending"
    /\ request.reviewedBy = Null
    /\ request.reviewedAt = Null

Reviewed(request) ==
    /\ request.status \in {"approved", "denied"}
    /\ request.reviewedBy # Null
    /\ request.reviewedAt # Null

\* C22 (as claimed): every stored time-off request is unreviewed (pending,
\* reviewedBy and reviewedAt null) or reviewed (approved or denied, reviewedBy
\* and reviewedAt set); createTimeOffRequest returns an unreviewed request;
\* and no call takes a reviewed request back to pending.
C22_ReviewStates ==
    /\ \A id \in DOMAIN storage["timeOffRequests"] :
          \/ Unreviewed(storage["timeOffRequests"][id])
          \/ Reviewed(storage["timeOffRequests"][id])
    /\ last.op = "createTimeOffRequest" => Unreviewed(last.ret)
    /\ \A id \in (DOMAIN pre.storage["timeOffRequests"])
                    \cap (DOMAIN storage["timeOffRequests"]) :
          Reviewed(pre.storage["timeOffRequests"][id]) =>
             storage["timeOffRequests"][id].status # "pending"

\* C23: approveTimeOffRequest / denyTimeOffRequest on a stored request, with
\* a reviewer and a requester that are stored users, adds exactly one
\* activity, of type approval / denial, with userId the reviewer and
\* relatedUserId the request's userId, and changes nothing else than the
\* request under its key.
C23_ReviewActivity ==
    (/\ last.op \in ReviewOps
     /\ last.found
     /\ last.reviewerId \in DOMAIN pre.storage["users"]
     /\ pre.storage["timeOffRequests"][last.id].userId \in DOMAIN pre.storage["users"])
    => LET aid == pre.storage.activityIdCounter
       IN /\ Added("activities") = {aid}
          /\ storage["activities"][aid].type =
                (IF last.op = "approveTimeOffRequest" THEN "approval" ELSE "denial")
          /\ storage["activities"][aid].userId = last.reviewerId
          /\ storage["activities"][aid].relatedUserId =
                pre.storage["timeOffRequests"][last.id].userId
          /\ Kept("activities")
          /\ storage.activityIdCounter = aid + 1
          /\ \A m \in {"users", "departments", "shifts", "messages"} :
                storage[m] = pre.storage[m]
          /\ DOMAIN storage["timeOffRequests"] = DOMAIN pre.storage["timeOffRequests"]
          /\ \A id \in DOMAIN pre.storage["timeOffRequests"] :
                id # last.id =>
                   storage["timeOffRequests"][id] = pre.storage["timeOffRequests"][id]
          /\ storage["timeOffRequests"][last.id] = last.ret

\* A request of a stored user was denied by a stored reviewer, and the denial
\* was logged.
C23_Witness ==
    /\ last.op = "denyTimeOffRequest"
    /\ last.found
    /\ last.reviewerId \in DOMAIN pre.storage["users"]
    /\ pre.storage["timeOffRequests"][last.id].userId \in DOMAIN pre.storage["users"]
    /\ Added("activities") # {}

\* What C24 says of a PUT /api/shifts/:id answered 200: the response is the
\* stored shift merged with the body and it is what is stored; exactly one
\* activity is added, of type shift_updated, with relatedUserId the owner the
\* shift had before the update; with notifyEmployee exactly one message is
\* added (notification, priority high, receiverId that owner), and without it
\* the messages are as they were.
ShiftUpdateEffects ==
    LET before == pre.storage["shifts"][last.id]
        aid == pre.storage.activityIdCounter
        mid == pre.storage.messageIdCounter
    IN /\ last.ret = Spread(before, last.arg)
       /\ storage["shifts"] = MapSet(pre.storage["shifts"], last.id, last.ret)
       /\ Added("activities") = {aid}
       /\ Kept("activities")
       /\ storage["activities"][aid].type = "shift_updated"
       /\ storage["activities"][aid].relatedUserId = before.userId
       /\ IF last.notify
          THEN /\ Added("messages") = {mid}
               /\ Kept("messages")
               /\ storage["messages"][mid].messageType = "notification"
               /\ storage["messages"][mid].priority = "high"
               /\ storage["messages"][mid].receiverId = before.userId
          ELSE storage["messages"] = pre.storage["messages"]

\* C24 (as claimed): every PUT /api/shifts/:id answered 200 has these effects.
C24_ShiftUpdated ==
    (last.op = "PUT /api/shifts/:id" /\ last.status = 200) => ShiftUpdateEffects

\* C24 (amended): a PUT /api/shifts/:id answered 200, on a shift whose owner
\* before the update is a stored user, returns and stores the merged shift,
\* adds exactly one activity of type shift_updated with relatedUserId that
\* owner, and with notifyEmployee adds exactly one notification message of
\* priority high to that owner, and none without it.
C24_ShiftUpdatedOwnerStored ==
    (/\ last.op = "PUT /api/shifts/:id"
     /\ last.status = 200
     /\ pre.storage["shifts"][last.id].userId \in DOMAIN pre.storage["users"])
    => ShiftUpdateEffects

\* A shift of a stored user was handed over to another user, with the
\* notification asked for.
C24_Witness ==
    /\ last.op = "PUT /api/shifts/:id"
    /\ last.status = 200
    /\ last.notify
    /\ pre.storage["shifts"][last.id].userId \in DOMAIN pre.storage["users"]
    /\ "userId" \in DOMAIN last.arg
    /\ last.arg.userId # pre.storage["shifts"][last.id].userId
    /\ Added("messages") # {}

\* The activity type that each user and department route logs.
DirectoryActivityType ==
    [x \in {"POST /api/users", "DELETE /api/users/:id", "POST /api/departments",
            "PUT /api/departments/:id", "DELETE /api/departments/:id"} |->
        CASE x = "POST /api/users" -> "user_created"
          [] x = "DELETE /api/users/:id" -> "user_deleted"
          [] x = "POST /api/departments" -> "department_created"
          [] x = "PUT /api/departments/:id" -> "department_updated"
          [] x = "DELETE /api/departments/:id" -> "department_deleted"]

\* C25: every POST /api/users, DELETE /api/users/:id, POST /api/departments,
\* PUT /api/departments/:id and DELETE /api/departments/:id answered with
\* success adds exactly one activity, of the type of the route, with userId
\* the id of the request's current user (null without one), and leaves the
\* other activities as they were; the activity of a user creation has
\* relatedUserId the id of the user created; a user deletion removes the
\* user's entry and leaves the other users and every shift, time-off request,
\* message and department as they were.
C25_DirectoryActivity ==
    (/\ last.op \in DOMAIN DirectoryActivityType
     /\ last.status \in {200, 201, 204})
    => LET aid == pre.storage.activityIdCounter
       IN /\ Added("activities") = {aid}
          /\ Kept("activities")
          /\ storage["activities"][aid].type = DirectoryActivityType[last.op]
          /\ storage["activities"][aid].userId = last.actor
          /\ last.op = "POST /api/users"
                => /\ Added("users") = {pre.storage.userIdCounter}
                   /\ last.ret.id = pre.storage.userIdCounter
                   /\ storage["activities"][aid].relatedUserId = last.ret.id
          /\ last.op = "DELETE /api/users/:id"
                => /\ storage["users"] = MapDelete(pre.storage["users"], last.id)
                   /\ storage["shifts"] = pre.storage["shifts"]
                   /\ storage["timeOffRequests"] = pre.storage["timeOffRequests"]
                   /\ storage["messages"] = pre.storage["messages"]
                   /\ storage["departments"] = pre.storage["departments"]

\* A user who owned a shift and had received a message was deleted.
C25_Witness ==
    /\ last.op = "DELETE /api/users/:id"
    /\ last.status = 204
    /\ last.id \in DOMAIN pre.storage["users"]
    /\ \E i \in DOMAIN storage["shifts"] : storage["shifts"][i].userId = last.id
    /\ \E i \in DOMAIN storage["messages"] : storage["messages"][i].receiverId = last.id

\* rows are min(n, total) stored activities, none created after the one
\* before it, and none of the activities left out was created after one of
\* the rows.
Truncated(rows, n) ==
    LET all == Range(Values(storage["activities"]))
        total == Cardinality(all)
    IN /\ Len(rows) = (IF n < total THEN n ELSE total)
       /\ Range(rows) \subseteq all
       /\ \A i \in 1 .. Len(rows), j \in 1 .. Len(rows) :
             i < j => rows[i].createdAt >= rows[j].createdAt
       /\ \A a \in all \ Range(rows), b \in Range(rows) : b.createdAt >= a.createdAt

\* C26 (as claimed): getActivities(n) with an integer n >= 0, and
\* GET /api/activities?limit=n, return exactly min(n, total) activities, the
\* most recent by createdAt, in descending order of createdAt; without a
\* limit both return all the activities in that order.
C26_LimitTruncates ==
    LET total == Cardinality(DOMAIN storage["activities"])
    IN /\ last.op = "getActivities" =>
             Truncated(last.ret.rows,
                       IF last.arg.limit = Undefined THEN total ELSE last.arg.limit)
       /\ (last.op = "GET /api/activities" /\ last.status = 200) =>
             Truncated(last.ret.rows,
                       IF last.arg.limit = "" THEN total ELSE parseInt[last.arg.limit])

\* C27 (as claimed): with requests interleaved at their awaits, (1) a
\* GET /api/time-off/:id that returns a request as approved or denied, by a
\* reviewer and for a requester who are stored users, finds the approval or
\* denial activity of that reviewer for that requester in the storage; and
\* (2) when two PUT /api/shifts/:id on the same shift have both been answered
\* 200, the stored shift has every field of both bodies.
C27_Atomic ==
    /\ (/\ last.op = "GET /api/time-off/:id"
        /\ last.status = 200
        /\ last.ret.status \in {"approved", "denied"}
        /\ last.ret.reviewedBy \in DOMAIN storage["users"]
        /\ last.ret.userId \in DOMAIN storage["users"])
       => \E a \in DOMAIN storage["activities"] :
             /\ storage["activities"][a].type =
                   (IF last.ret.status = "approved" THEN "approval" ELSE "denial")
             /\ storage["activities"][a].userId = last.ret.reviewedBy
             /\ storage["activities"][a].relatedUserId = last.ret.userId
    /\ \A x \in DOMAIN inflight, y \in DOMAIN inflight :
          (/\ x # y
           /\ inflight[x].op = "PUT /api/shifts/:id"
           /\ inflight[y].op = "PUT /api/shifts/:id"
           /\ inflight[x].id = inflight[y].id
           /\ inflight[x].pc = "done" /\ inflight[x].status = 200
           /\ inflight[y].pc = "done" /\ inflight[y].status = 200)
          => \A f \in DOMAIN inflight[x].arg :
                storage["shifts"][inflight[x].id][f] = inflight[x].arg[f]

\* C28 (as claimed): a request without an x-user-id header is never let
\* through a check of a capability that the employee row lacks, and every
\* check of a request attributed to a user whose role is in the table decides
\* by the cell of that role.
C28_NoHeaderReduced ==
    /\ (/\ last.perm # "none"
        /\ last.header = Null
        /\ ~rolePermissions["employee"][last.perm])
       => ~last.allowed
    /\ (last.perm # "none" /\ last.role \in Roles)
       => last.allowed = rolePermissions[last.role][last.perm]

\* C29 (as claimed): for a request identified as a stored user whose role is
\* not admin, manager or employee, checkPermission lets the request through
\* exactly when the employee row holds the capability checked.
C29_UnknownRoleAsEmployee ==
    (last.perm # "none" /\ last.identified /\ last.role \notin Roles)
    => last.allowed = rolePermissions["employee"][last.perm]

\* C30 (as claimed): every shift that GET /api/shifts, whatever its query, or
\* GET /api/shifts/:id returns with a 200 to a request identified as a stored
\* user of role employee has userId equal to that user's id.
C30_EmployeeOwnShifts ==
    (/\ last.op \in {"GET /api/shifts", "GET /api/shifts/:id"}
     /\ last.status = 200
     /\ last.identified
     /\ last.role = "employee")
    => IF last.op = "GET /api/shifts"
       THEN \A i \in 1 .. Len(last.ret.rows) : last.ret.rows[i].userId = last.actor
       ELSE last.ret.userId = last.actor

====
